---- MODULE Spec2Model ----
(***************************************************************************)
(* A model of src/src/extract-pst.c: the serialisation of one item of a   *)
(* PST mailbox as an RFC822 document (write_normal_email and the          *)
(* functions it calls).                                                    *)
(*                                                                         *)
(* A C string is the sequence of its bytes, without the terminator; a     *)
(* char* into a string is a 1-based index into it, 0 is the null pointer, *)
(* and the byte read at index Len(s)+1 is the terminator 0.  A char* that *)
(* may be NULL as a whole (an optional field of an item) is the sequence  *)
(* NULL, which no C string equals.  S("text") is the C string "text".     *)
(***************************************************************************)
EXTENDS Integers, Sequences, FiniteSets, TLC

VARIABLES
    calls,      \* every call of write_normal_email made so far, in call order:
                \* its arguments, its local variables and its position
    cur,        \* the call that is executing (an index of calls), 0 when none
    extra,      \* char *extra_mime_headers of process(), shared by all calls
    out,        \* what was written to f_output, one entry per fprintf/fwrite
    arg         \* the argument of a function that is run on its own

vars == <<calls, cur, extra, out, arg>>

-----------------------------------------------------------------------------
(* Characters and C strings *)

NULL == <<0>>

\* the printable characters from code 32 to 95, and from 97 to 126
AsciiLow == " !\"#$%&'()*+,-./0123456789:;<=>?@ABCDEFGHIJKLMNOPQRSTUVWXYZ[\\]^_"
AsciiHigh == "abcdefghijklmnopqrstuvwxyz{|}~"

CodeOf ==
    [c \in {"\t", "\n", "\r"} |-> CASE c = "\t" -> 9 [] c = "\n" -> 10 [] OTHER -> 13]
    @@ [c \in {SubSeq(AsciiLow, i, i) : i \in 1..Len(AsciiLow)} |->
          31 + CHOOSE i \in 1..Len(AsciiLow) : SubSeq(AsciiLow, i, i) = c]
    @@ [c \in {SubSeq(AsciiHigh, i, i) : i \in 1..Len(AsciiHigh)} |->
          96 + CHOOSE i \in 1..Len(AsciiHigh) : SubSeq(AsciiHigh, i, i) = c]

S(text) == [i \in 1..Len(text) |-> CodeOf[SubSeq(text, i, i)]]

Ch(s, i) == IF i >= 1 /\ i <= Len(s) THEN s[i] ELSE 0

\* the string a char* p into s denotes: from p to the terminator
From(s, p) == SubSeq(s, p, Len(s))

tolower(c) == IF c >= 65 /\ c <= 90 THEN c + 32 ELSE c

\* strchr(s + p - 1, c): the first index >= p of s holding c, 0 if none
strchr(s, p, c) ==
    IF \E i \in p..Len(s) : s[i] = c
    THEN CHOOSE i \in p..Len(s) : s[i] = c /\ \A j \in p..(i - 1) : s[j] # c
    ELSE 0

\* whether n occurs in s at index i
occurs_at(s, i, n) == \A k \in 1..Len(n) : s[i + k - 1] = n[k]

\* strstr(s + p - 1, n): the first index >= p of s where n occurs, 0 if none
strstr(s, p, n) ==
    LET last == Len(s) - Len(n) + 1 IN
    IF \E i \in p..last : occurs_at(s, i, n)
    THEN CHOOSE i \in p..last : occurs_at(s, i, n) /\ \A j \in p..(i - 1) : ~occurs_at(s, j, n)
    ELSE 0

\* strncasecmp(a + p - 1, b + q - 1, n) == 0: the strings agree, letter
\* case aside, on their first n characters or up to and with the terminator
strncaseeq(a, p, b, q, n) ==
    LET rest == IF p > Len(a) THEN 0 ELSE Len(a) - p + 1
        m    == IF n < rest + 1 THEN n ELSE rest + 1
    IN  \A k \in 1..m : tolower(Ch(a, p + k - 1)) = tolower(Ch(b, q + k - 1))

\* a buffer of size bytes holds at most size-1 characters and the terminator
\* (snprintf(buf, size, "%s", s); strncpy(buf, s, size); buf[size-1] = '\0')
Truncate(s, size) == IF Len(s) > size - 1 THEN SubSeq(s, 1, size - 1) ELSE s

\* printf's %i of a non-negative int
RECURSIVE Digits(_)
Digits(n) == IF n < 10 THEN <<48 + n>> ELSE Digits(n \div 10) \o <<48 + (n % 10)>>

\* printf's %d of an int
SignedDigits(n) == IF n < 0 THEN <<45>> \o Digits(0 - n) ELSE Digits(n)

\* removeCR leaving every byte in place; C9 fails of it
removeCR_nothing(c) == c

\* removeCR: every byte but '\r' is copied down
removeCR(c) == SelectSeq(c, LAMBDA b : b # 13)

-----------------------------------------------------------------------------
(* Header analysis *)

\* how many characters of needle, from its first, haystack holds from index s
\* on, letter case aside
match_run(haystack, needle, s) ==
    LET agree(k) == tolower(Ch(needle, k)) = tolower(Ch(haystack, s + k - 1))
                    /\ Ch(haystack, s + k - 1) # 0
    IN  IF \A k \in 1..Len(needle) : agree(k) THEN Len(needle)
        ELSE (CHOOSE k \in 1..Len(needle) : ~agree(k) /\ \A j \in 1..(k - 1) : agree(j)) - 1

\* the loop of my_stristr, taken from an iteration that has y at the start
\* of needle and z null, x being the cursor in haystack.  The iterations
\* that find *x different from the first character of needle only advance
\* x; from the first x that agrees (s) the loop advances x and y together,
\* with z = s, for as long as they agree (m characters).  It ends with z
\* when needle is exhausted, and with NULL when haystack is; on a mismatch
\* it resets y and z and goes on from the character after the mismatch
RECURSIVE my_stristr_loop(_, _, _)
my_stristr_loop(haystack, needle, x) ==
    IF needle = <<>> THEN 0
    ELSE IF ~\E i \in x..Len(haystack) : tolower(haystack[i]) = tolower(needle[1]) THEN 0
    ELSE LET s == CHOOSE i \in x..Len(haystack) :
                      /\ tolower(haystack[i]) = tolower(needle[1])
                      /\ \A j \in x..(i - 1) : tolower(haystack[j]) # tolower(needle[1])
             m == match_run(haystack, needle, s)
         IN  IF m = Len(needle) THEN s
             ELSE IF s + m > Len(haystack) THEN 0
             ELSE my_stristr_loop(haystack, needle, s + m + 1)

my_stristr(haystack, needle) ==
    IF haystack = NULL \/ needle = NULL THEN 0
    ELSE my_stristr_loop(haystack, needle, 1)

\* the string literals of the header functions and of write_normal_email's
\* header handling
Lit ==
    [CRLFTAB |-> S("\r\n\t"), NLNL |-> S("\n\n"), ColonSpace |-> S(": "),
     RFC822 |-> S("message/rfc822"),
     From |-> S("\nFrom:"), To |-> S("\nTo:"), Subject |-> S("\nSubject:"),
     Date |-> S("\nDate:"), CC |-> S("\nCC:"), MessageId |-> S("\nMessage-Id:"),
     ContentType |-> S("\nContent-Type:"),
     MSHeaders |-> S("\nMicrosoft Mail Internet Headers"),
     MIMEVersion |-> S("\nMIME-Version:"),
     CTE |-> S("\nContent-Transfer-Encoding:"),
     ContentClass |-> S("\nContent-class:"), XMimeOLE |-> S("\nX-MimeOLE:"),
     XFrom |-> S("\nX-From_:"),
     charset |-> S("charset"), report_type |-> S("report-type"),
     delivery_status |-> S("delivery-status"), MAILER_DAEMON |-> S("MAILER-DAEMON"),
     boundary_head |-> S("--boundary-LibPST-iamunique-"), boundary_tail |-> S("_-_-"),
     alt |-> S("alt-"), utf8 |-> S("utf-8"), utf8_quotes |-> S("utf-8''"),
     text_plain |-> S("text/plain"), text_html |-> S("text/html"),
     octet_stream |-> S("application/octet-stream"),
     rtf_name |-> S("rtf-body.rtf"), rtf_mime |-> S("application/rtf"),
     REQUEST |-> S("REQUEST"), ics_head |-> S("i"), ics_tail |-> S(".ics"),
     dot |-> S("."), FromSpace |-> S("From ")]

\* header_match without the folded form of the tag; C19 fails of it
header_match_unfolded(header, field) == strncaseeq(header, 1, field, 1, Len(field))

header_match(header, field) ==
    LET n == Len(field) IN
    \/ strncaseeq(header, 1, field, 1, n)
    \/ /\ field[n] = 32
       /\ strncaseeq(header, 1, field, 1, n - 1)
       /\ strncaseeq(header, n, Lit.CRLFTAB, 1, 3)

HeaderTags ==
    << S("Content-Type: "), S("Date: "), S("From: "), S("MIME-Version: "),
       S("Microsoft Mail Internet Headers"), S("Received: "), S("Return-Path: "),
       S("Subject: "), S("To: "), S("X-ASG-Debug-ID: "), S("X-Barracuda-URL: "),
       S("X-x: ") >>

valid_headers(header) ==
    /\ header # NULL
    /\ \E i \in 1..Len(HeaderTags) : header_match(header, HeaderTags[i])

\* header_has_field sets *flag; the result is whether it does
header_has_field(header, field) ==
    \/ my_stristr(header, field) # 0
    \/ strncaseeq(header, 1, field, 2, Len(field) - 1)

header_get_field(header, field) ==
    LET t == my_stristr(header, field) IN
    IF t = 0 /\ strncaseeq(header, 1, field, 2, Len(field) - 1) THEN 1 ELSE t

RECURSIVE header_end_loop(_, _)
header_end_loop(s, e) ==
    IF e # 0 /\ (Ch(s, e + 1) = 32 \/ Ch(s, e + 1) = 9)
    THEN header_end_loop(s, strchr(s, e + 1, 10))
    ELSE e

\* field is an index into s
header_end_field(s, field) == header_end_loop(s, strchr(s, field + 1, 10))

\* one round of the while loop of header_strip_field, t being the field found
strip_once(header, t) ==
    LET e == header_end_field(header, t) IN
    IF e # 0
    THEN SubSeq(header, 1, t - 1) \o From(header, IF t = 1 THEN e + 1 ELSE e)
    ELSE SubSeq(header, 1, t - 1)

RECURSIVE header_strip_field(_, _)
header_strip_field(header, field) ==
    LET t == header_get_field(header, field) IN
    IF t = 0 THEN header ELSE header_strip_field(strip_once(header, t), field)

\* header_get_subfield: the new content of body_subfield (old when unchanged);
\* field is an index into s, 0 for a null field
header_get_subfield(s, field, subfield, old, size) ==
    IF field = 0 THEN old
    ELSE
    LET search == Truncate(<<32>> \o subfield \o <<61>>, 60)
        f1 == field + 1
        n  == header_end_field(s, f1)
        r  == my_stristr(From(s, f1), search)
        st == IF r = 0 THEN 0 ELSE r + f1 - 1
    IN  IF n # 0 /\ st # 0 /\ st < n
        THEN LET s1 == st + Len(search)
                 quoted == Ch(s, s1) = 34
                 s2 == IF quoted THEN s1 + 1 ELSE s1
                 e0 == IF quoted THEN strchr(s, s2, 34)
                       ELSE LET e == strchr(s, s2, 59)
                                f == strchr(s, s2, 10)
                            IN  IF e # 0 /\ f # 0 /\ f < e THEN f ELSE e
                 e1 == IF e0 = 0 \/ e0 > n THEN n ELSE e0
             IN  Truncate(SubSeq(s, s2, e1 - 1), size)
        ELSE old

\* find_rfc822_headers: whether the Content-Type of a group is RFC822
rfc822_group(group) ==
    LET t == header_get_field(group, Lit.ContentType) IN
    /\ t # 0
    /\ LET t1 == t + 1
           n  == strchr(group, t1, 10)
           s  == strstr(group, t1, Lit.ColonSpace)
           e0 == strchr(group, t1, 59)
           e  == IF e0 = 0 \/ e0 > n THEN n ELSE e0
       IN  /\ s # 0
           /\ s < e
           /\ strncaseeq(group, s + 2, Lit.RFC822, 1, e - (s + 2))

\* find_rfc822_headers: the string *extra_mime_headers points to afterwards,
\* given the string it points to before
RECURSIVE find_rfc822_headers(_)
find_rfc822_headers(headers) ==
    LET temp == strstr(headers, 1, Lit.NLNL) IN
    IF temp = 0 THEN headers
    ELSE IF rfc822_group(SubSeq(headers, 1, temp)) THEN From(headers, temp + 2)
    ELSE find_rfc822_headers(From(headers, temp + 2))

-----------------------------------------------------------------------------
(* Body parts *)

\* test_base64 without the exception for the tab; C8 fails of it
test_base64_tab(body) ==
    \E i \in 1..Len(body) : body[i] < 32 /\ body[i] # 10

test_base64(body) ==
    \E i \in 1..Len(body) : body[i] < 32 /\ body[i] # 9 /\ body[i] # 10

\* while (*p == '>') p++;
RECURSIVE skip_gt(_, _)
skip_gt(s, p) == IF Ch(s, p) = 62 THEN skip_gt(s, p + 1) ELSE p

\* the comparison without the space behind the word; C30 fails of it
starts_From_word(s, p) ==
    \A i \in 1..4 : Ch(s, p + i - 1) = Lit.FromSpace[i]

\* strncmp(s + p - 1, "From ", 5) == 0
starts_From(s, p) ==
    \A i \in 1..5 : Ch(s, p + i - 1) = Lit.FromSpace[i]

\* write_email_body: the bytes written
RECURSIVE write_email_body(_)
write_email_body(body) ==
    LET q == IF starts_From(body, skip_gt(body, 1)) THEN <<62>> ELSE <<>>
        n == strchr(body, 1, 10)
    IN  IF n # 0
        THEN q \o SubSeq(body, 1, n) \o write_email_body(From(body, n + 1))
        ELSE q \o body

\* pst_base64_encode of libpst: the RFC 2045 alphabet, '=' padding, and a
\* newline before every 77th character of a line
B64Char(v) ==
    IF v < 26 THEN 65 + v
    ELSE IF v < 52 THEN 97 + (v - 26)
    ELSE IF v < 62 THEN 48 + (v - 52)
    ELSE IF v = 62 THEN 43 ELSE 47

\* the encoded characters before the lines are broken: four for every three
\* bytes, the last group padded with '='
b64_groups(d) ==
    LET n == Len(d)
        at(i) == IF i <= n THEN d[i] ELSE 0
    IN  [k \in 1..(4 * ((n + 2) \div 3)) |->
            LET g  == (k - 1) \div 4
                j  == (k - 1) % 4
                b1 == at(3 * g + 1)
                b2 == at(3 * g + 2)
                b3 == at(3 * g + 3)
            IN  CASE j = 0 -> B64Char(b1 \div 4)
                  [] j = 1 -> B64Char((b1 % 4) * 16 + b2 \div 16)
                  [] j = 2 -> IF 3 * g + 2 > n THEN 61
                              ELSE B64Char((b2 % 16) * 4 + b3 \div 64)
                  [] j = 3 -> IF 3 * g + 3 > n THEN 61 ELSE B64Char(b3 % 64)]

RECURSIVE b64_wrap(_)
b64_wrap(e) ==
    IF Len(e) <= 76 THEN e
    ELSE SubSeq(e, 1, 76) \o <<10>> \o b64_wrap(SubSeq(e, 77, Len(e)))

pst_base64_encode(data) == b64_wrap(b64_groups(data))

\* one entry of out: fmt is the format string of the fprintf that wrote it
\* and a its string arguments, in order ("fwrite" and the bytes, for the
\* writes that have no format); k names the call site.  inv and att are set
\* by the caller: the call of write_normal_email that wrote the entry and
\* the attachment it was written for
Tok(k, fmt, a) == [k |-> k, fmt |-> fmt, a |-> a, inv |-> 0, att |-> 0]

Tag(toks, inv, att) ==
    [i \in 1..Len(toks) |-> [toks[i] EXCEPT !.inv = inv, !.att = att]]

\* write_body_part without the test of body->is_utf8; C13 fails of it
write_body_part_given_charset(body, mime, charset, boundary) ==
    LET str == removeCR(body.str)
        base64 == test_base64(str)
    IN  << Tok("body-boundary", "\n--%s\n", <<boundary>>),
           Tok("body-Content-Type", "Content-Type: %s; charset=\"%s\"\n", <<mime, charset>>) >>
        \o (IF base64
            THEN << Tok("body-CTE", "Content-Transfer-Encoding: base64\n", <<>>) >>
            ELSE <<>>)
        \o << Tok("body-blank", "\n", <<>>) >>
        \o (IF base64
            THEN << Tok("body-base64", "fwrite", <<write_email_body(pst_base64_encode(str))>>),
                    Tok("body-base64-nl", "\n", <<>>) >>
            ELSE << Tok("body-text", "fwrite", <<write_email_body(str)>>) >>)

\* write_body_part: body is [null, str, is_utf8]
write_body_part(body, mime, charset, boundary) ==
    LET str == removeCR(body.str)
        cs  == IF body.is_utf8 THEN Lit.utf8 ELSE charset
        base64 == test_base64(str)
    IN  << Tok("body-boundary", "\n--%s\n", <<boundary>>),
           Tok("body-Content-Type", "Content-Type: %s; charset=\"%s\"\n", <<mime, cs>>) >>
        \o (IF base64
            THEN << Tok("body-CTE", "Content-Transfer-Encoding: base64\n", <<>>) >>
            ELSE <<>>)
        \o << Tok("body-blank", "\n", <<>>) >>
        \o (IF base64
            THEN << Tok("body-base64", "fwrite", <<write_email_body(pst_base64_encode(str))>>),
                    Tok("body-base64-nl", "\n", <<>>) >>
            ELSE << Tok("body-text", "fwrite", <<write_email_body(str)>>) >>)

-----------------------------------------------------------------------------
(* Attachments *)

\* quote_string, lines 462-472: the size of the buffer it allocates. The
\* loop steps curr before it tests *curr, so it counts the quotes and
\* backslashes that stand after the first character
quote_string_size(inp) ==
    LET i     == Len(inp)
        count == Cardinality({ p \in 2..Len(inp) : inp[p] = 34 \/ inp[p] = 92 })
    IN  i + count + 1

\* quote_string: the string it builds in res
RECURSIVE quote_string(_)
quote_string(inp) ==
    IF inp = <<>> THEN <<>>
    ELSE (IF Head(inp) = 34 \/ Head(inp) = 92 THEN <<92>> ELSE <<>>)
         \o <<Head(inp)>> \o quote_string(Tail(inp))

\* printf's %x of a non-negative int
RECURSIVE HexDigits(_)
HexDigits(n) ==
    LET d == n % 16
        c == IF d < 10 THEN 48 + d ELSE 87 + d
    IN  IF n < 16 THEN <<c>> ELSE HexDigits(n \div 16) \o <<c>>

\* pst_rfc2231 of libpst rewrites a filename as utf-8''<name>, with every
\* byte at or below the space, or above 127, written as '%' and its "%2x"
RECURSIVE rfc2231_escape(_)
rfc2231_escape(name) ==
    IF name = <<>> THEN <<>>
    ELSE LET c == Head(name) IN
         (IF c <= 32 \/ c >= 128
          THEN <<37>> \o (IF c < 16 THEN <<32>> ELSE <<>>) \o HexDigits(c)
          ELSE <<c>>)
         \o rfc2231_escape(Tail(name))

pst_rfc2231(name) == Lit.utf8_quotes \o rfc2231_escape(name)

\* an index in which every id resolves; C7 fails of it
pst_getID_any(attach) == TRUE

\* pst_getID(pst, attach->i_id): the index entry, a collaborator's answer
\* that the attachment record carries as "resolves"
pst_getID(attach) == attach.i_id # 0 /\ attach.resolves

write_inline_attachment(attach, boundary) ==
    IF ~attach.data /\ ~pst_getID(attach) THEN <<>>
    ELSE
       << Tok("att-boundary", "\n--%s\n", <<boundary>>),
          Tok("att-Content-Type", "Content-Type: %s\n",
              << IF attach.mimetype = NULL THEN Lit.octet_stream ELSE attach.mimetype >>),
          Tok("att-CTE", "Content-Transfer-Encoding: base64\n", <<>>) >>
       \o (IF attach.content_id # NULL
           THEN << Tok("att-Content-ID", "Content-ID: <%s>\n", <<attach.content_id>>) >>
           ELSE <<>>)
       \o (IF attach.filename2 # NULL
           THEN << Tok("att-Disposition",
                       "Content-Disposition: attachment; \n        filename*=%s;\n",
                       <<pst_rfc2231(attach.filename2)>>),
                   Tok("att-filename", "        filename=\"%s\"\n\n",
                       <<quote_string(attach.filename2)>>) >>
           ELSE IF attach.filename1 # NULL
           THEN << Tok("att-Disposition",
                       "Content-Disposition: attachment; filename=\"%s\"\n\n",
                       <<attach.filename1>>) >>
           ELSE << Tok("att-Disposition", "Content-Disposition: inline\n\n", <<>>) >>)
       \o << Tok("att-base64", "pst_attach_to_file_base64", <<attach.content>>),
             Tok("att-end", "\n\n", <<>>) >>

\* write_embedded_message without the test of item->email; C6 fails of it
write_embedded_message_any(attach, boundary) ==
    IF ~attach.inner.parsed THEN <<>>
    ELSE << Tok("emb-boundary", "\n--%s\n", <<boundary>>),
            Tok("emb-Content-Type", "Content-Type: %s\n\n", <<attach.mimetype>>) >>

\* write_embedded_message up to its call of write_normal_email: what it
\* writes; attach.inner is what pst_parse_item returns for the attachment
write_embedded_message(attach, boundary) ==
    IF ~attach.inner.parsed THEN <<>>
    ELSE IF ~attach.inner.email THEN <<>>
    ELSE << Tok("emb-boundary", "\n--%s\n", <<boundary>>),
            Tok("emb-Content-Type", "Content-Type: %s\n\n", <<attach.mimetype>>) >>

-----------------------------------------------------------------------------
(* write_normal_email *)

HasAt(s) == s # NULL /\ strchr(s, 1, 64) # 0

\* write_normal_email, lines 815-825: the default sender
default_sender(item) ==
    Truncate(IF HasAt(item.sender_address) THEN item.sender_address
             ELSE Lit.MAILER_DAEMON, 60)

\* write_normal_email, lines 871-887: the sender derived from the From field
\* of the header block h2, which has been cut at its blank line
derive_sender(item, h2) ==
    LET fr == header_get_field(h2, Lit.From)
        t  == fr + 1
        n  == strchr(h2, t, 10)
        s  == strchr(h2, t, 60)
        e  == strchr(h2, t, 62)
    IN  IF ~HasAt(item.sender_address) /\ fr # 0 /\ s # 0 /\ e # 0 /\ n # 0
           /\ s < e /\ e < n
        THEN Truncate(SubSeq(h2, s + 1, e - 1), 60)
        ELSE default_sender(item)

\* write_normal_email, lines 889-896: the fields stripped from the header
\* block, one call of header_strip_field after the other
RECURSIVE strip_fields(_, _)
strip_fields(h, fields) ==
    IF fields = <<>> THEN h
    ELSE strip_fields(header_strip_field(h, Head(fields)), Tail(fields))

\* lines 804-897: the header block chosen and what is read from it.
\* item.header is item->email->header.str, xp the string *extra_mime_headers
\* points to (NULL for a null pointer)
resolve_headers(item, xp) ==
    LET src == IF valid_headers(item.header) THEN "own"
               ELSE IF valid_headers(xp) THEN "extra" ELSE "none"
        charset0 == Truncate(item.charset, 30)
        report0  == Truncate(Lit.delivery_status, 60)
    IN  IF src = "none"
        THEN [src |-> src, headers |-> NULL, tail |-> NULL,
              has_from |-> FALSE, has_to |-> FALSE, has_subject |-> FALSE,
              has_date |-> FALSE, has_cc |-> FALSE, has_msgid |-> FALSE,
              body_charset |-> charset0, body_report |-> report0,
              sender |-> default_sender(item)]
        ELSE
        LET h1   == removeCR(IF src = "own" THEN item.header ELSE xp)
            temp == strstr(h1, 1, Lit.NLNL)
            h2   == IF temp # 0 THEN SubSeq(h1, 1, temp) ELSE h1
            ct   == header_get_field(h2, Lit.ContentType)
            h3   == strip_fields(h2, << Lit.MSHeaders, Lit.MIMEVersion, Lit.ContentType,
                                        Lit.CTE, Lit.ContentClass, Lit.XMimeOLE,
                                        Lit.XFrom >>)
        IN  [src |-> src, headers |-> h3,
             tail |-> IF temp # 0 THEN From(h1, temp + 2) ELSE NULL,
             has_from    |-> header_has_field(h2, Lit.From),
             has_to      |-> header_has_field(h2, Lit.To),
             has_subject |-> header_has_field(h2, Lit.Subject),
             has_date    |-> header_has_field(h2, Lit.Date),
             has_cc      |-> header_has_field(h2, Lit.CC),
             has_msgid   |-> header_has_field(h2, Lit.MessageId),
             body_charset |-> header_get_subfield(h2, ct, Lit.charset, charset0, 30),
             body_report  |-> header_get_subfield(h2, ct, Lit.report_type, report0, 60),
             sender |-> derive_sender(item, h2)]

\* lines 838-840, r being what rand() returns
make_boundary(r) == Truncate(Lit.boundary_head \o Digits(r) \o Lit.boundary_tail, 60)

\* the alternative boundary without its prefix; C4 fails of it
altboundary_unprefixed(boundary) == Truncate(boundary, 66)

make_altboundary(boundary) == Truncate(Lit.alt \o boundary, 66)

\* strftime of the sent date, "%a, %d %b %Y %H:%M:%S %z": the sent dates of
\* the model are the first seconds of 1970
date_text(sent_date) ==
    S("Thu, 01 Jan 1970 00:00:0") \o Digits(sent_date) \o S(" +0000")

\* pst_rfc2047 of libpst: a string with a byte at or below the space, or
\* above 127, becomes =?utf-8?B?<base64>?=
pst_rfc2047(str) ==
    IF \E i \in 1..Len(str) : str[i] <= 32 \/ str[i] >= 128
    THEN S("=?utf-8?B?") \o b64_groups(str) \o S("?=")
    ELSE str

\* lines 906-931 with the read status written first; C5 fails of it
print_headers_status_first(f) ==
    (IF f.item.read THEN << Tok("Status", "Status: RO\n", <<>>) >> ELSE <<>>)
    \o (IF f.headers # NULL /\ Len(f.headers) > 0
        THEN << Tok("headers", "%s", <<f.headers>>) >> ELSE <<>>)

\* lines 906-931 without the newline that completes the header text; C27
\* fails of it
print_headers_as_is(f) ==
    (IF f.headers # NULL /\ Len(f.headers) > 0
     THEN << Tok("headers", "%s", <<f.headers>>) >> ELSE <<>>)
    \o (IF f.item.read THEN << Tok("Status", "Status: RO\n", <<>>) >> ELSE <<>>)

\* lines 906-931: the recovered header text and the read status
print_headers(f) ==
    (IF f.headers # NULL /\ Len(f.headers) > 0
     THEN << Tok("headers", "%s", <<f.headers>>) >>
          \o (IF f.headers[Len(f.headers)] # 10
              THEN << Tok("headers-nl", "\n", <<>>) >> ELSE <<>>)
     ELSE <<>>)
    \o (IF f.item.read THEN << Tok("Status", "Status: RO\n", <<>>) >> ELSE <<>>)

\* lines 935-942
synthesize_from(f) ==
    IF ~f.has_from
    THEN IF f.item.outlook_sender_name # NULL
         THEN << Tok("From", "From: %s <%s>\n",
                     <<pst_rfc2047(f.item.outlook_sender_name), f.sender>>) >>
         ELSE << Tok("From", "From: <%s>\n", <<f.sender>>) >>
    ELSE <<>>

\* lines 944-951 without the line for an item that has no subject; C3
\* fails of it
synthesize_subject_if_any(f) ==
    IF ~f.has_subject /\ f.item.subject # NULL
    THEN << Tok("Subject", "Subject: %s\n", <<pst_rfc2047(f.item.subject)>>) >>
    ELSE <<>>

\* lines 944-951
synthesize_subject(f) ==
    IF ~f.has_subject
    THEN IF f.item.subject # NULL
         THEN << Tok("Subject", "Subject: %s\n", <<pst_rfc2047(f.item.subject)>>) >>
         ELSE << Tok("Subject", "Subject: \n", <<>>) >>
    ELSE <<>>

\* lines 953-956
synthesize_to(f) ==
    IF ~f.has_to /\ f.item.sentto_address # NULL
    THEN << Tok("To", "To: %s\n", <<pst_rfc2047(f.item.sentto_address)>>) >>
    ELSE <<>>

\* lines 958-961 without the test of the presence flag; C1 fails of it
synthesize_cc_unflagged(f) ==
    IF f.item.cc_address # NULL
    THEN << Tok("Cc", "Cc: %s\n", <<pst_rfc2047(f.item.cc_address)>>) >>
    ELSE <<>>

\* lines 958-961
synthesize_cc(f) ==
    IF ~f.has_cc /\ f.item.cc_address # NULL
    THEN << Tok("Cc", "Cc: %s\n", <<pst_rfc2047(f.item.cc_address)>>) >>
    ELSE <<>>

\* lines 963-969
synthesize_date(f) ==
    IF ~f.has_date /\ f.item.sent_date # 0
    THEN << Tok("Date", "Date: %s\n", <<date_text(f.item.sent_date)>>) >>
    ELSE <<>>

\* lines 971-974
synthesize_msgid(f) ==
    IF ~f.has_msgid /\ f.item.messageid # NULL
    THEN << Tok("Message-Id", "Message-Id: %s\n", <<f.item.messageid>>) >>
    ELSE <<>>

\* lines 933-974: the required header fields that are not already written
required_headers(f) ==
    synthesize_from(f) \o synthesize_subject(f) \o synthesize_to(f)
    \o synthesize_cc(f) \o synthesize_date(f) \o synthesize_msgid(f)

\* lines 976-988
forensic_headers(f) ==
    LET sa == f.item.sender_address IN
    (IF sa # NULL /\ ~HasAt(sa) /\ sa # Lit.dot /\ Len(sa) > 0
     THEN << Tok("X-libpst-forensic-sender", "X-libpst-forensic-sender: %s\n", <<sa>>) >>
     ELSE <<>>)
    \o (IF f.item.bcc_address # NULL
        THEN << Tok("X-libpst-forensic-bcc", "X-libpst-forensic-bcc: %s\n",
                    <<f.item.bcc_address>>) >>
        ELSE <<>>)

\* lines 990-999
mime_headers(f) ==
    << Tok("MIME-Version", "MIME-Version: 1.0\n", <<>>),
       IF f.item.type = "REPORT"
       THEN Tok("Content-Type",
                "Content-Type: multipart/report; report-type=%s;\n\tboundary=\"%s\"\n",
                <<f.body_report, f.boundary>>)
       ELSE Tok("Content-Type", "Content-Type: multipart/mixed;\n\tboundary=\"%s\"\n",
                <<f.boundary>>),
       Tok("end-of-headers", "\n", <<>>) >>

\* lines 1007-1016 with the outer boundary in both cases; C10 fails of it
altboundaryp_outer(f) == f.boundary

\* lines 1007-1016: the boundary the plain and the HTML part are opened with
altboundaryp(f) ==
    IF ~f.item.body.null /\ ~f.item.htmlbody.null THEN f.altboundary ELSE f.boundary

\* lines 1001-1028
body_parts(f) ==
    LET item == f.item
        both == ~item.body.null /\ ~item.htmlbody.null
    IN  (IF item.type = "REPORT" /\ ~item.report_text.null
         THEN write_body_part(item.report_text, Lit.text_plain, f.body_charset, f.boundary)
              \o << Tok("report-nl", "\n", <<>>) >>
         ELSE <<>>)
        \o (IF both
            THEN << Tok("alt-boundary", "\n--%s\n", <<f.boundary>>),
                    Tok("alt-Content-Type",
                        "Content-Type: multipart/alternative;\n\tboundary=\"%s\"\n",
                        <<f.altboundary>>) >>
            ELSE <<>>)
        \o (IF ~item.body.null
            THEN write_body_part(item.body, Lit.text_plain, f.body_charset, altboundaryp(f))
            ELSE <<>>)
        \o (IF ~item.htmlbody.null
            THEN write_body_part(item.htmlbody, Lit.text_html, f.body_charset,
                                 altboundaryp(f))
            ELSE <<>>)
        \o (IF both
            THEN << Tok("alt-close", "\n--%s--\n", <<f.altboundary>>) >>
            ELSE <<>>)

\* memset(attach, 0, sizeof(pst_item_attach))
NewAttach ==
    [method |-> "NONE", data |-> FALSE, i_id |-> 0, resolves |-> FALSE,
     mimetype |-> NULL, filename1 |-> NULL, filename2 |-> NULL,
     content_id |-> NULL, content |-> <<>>, inner |-> [parsed |-> FALSE]]

\* lines 1030-1063 with each synthetic attachment put at the end of the
\* list; C11 fails of it
promote_appended(item, filename2, mimetype) ==
    item.attach
    \o (IF item.rtf_compressed
        THEN << [NewAttach EXCEPT !.data = TRUE, !.content = S("rtf"),
                                  !.filename2 = filename2,
                                  !.mimetype = mimetype] >>
        ELSE <<>>)
    \o (IF item.encrypted_body
        THEN << [NewAttach EXCEPT !.data = TRUE, !.content = S("encrypted_body")] >>
        ELSE <<>>)
    \o (IF item.encrypted_htmlbody
        THEN << [NewAttach EXCEPT !.data = TRUE, !.content = S("encrypted_htmlbody")] >>
        ELSE <<>>)

\* what strdup(s) returns: a copy of s, or a null pointer when the
\* allocation fails
strdup(s, allocated) == IF allocated THEN s ELSE NULL

\* lines 1030-1063: the attachment list after the promotions, filename2
\* and mimetype being what the calls of strdup at lines 1037 and 1039 return
promote(item, filename2, mimetype) ==
    LET a1 == IF item.rtf_compressed
              THEN << [NewAttach EXCEPT !.data = TRUE, !.content = S("rtf"),
                                        !.filename2 = filename2,
                                        !.mimetype = mimetype] >>
                   \o item.attach
              ELSE item.attach
        a2 == IF item.encrypted_body
              THEN << [NewAttach EXCEPT !.data = TRUE, !.content = S("encrypted_body")] >>
                   \o a1
              ELSE a1
    IN  IF item.encrypted_htmlbody
        THEN << [NewAttach EXCEPT !.data = TRUE, !.content = S("encrypted_htmlbody")] >>
             \o a2
        ELSE a2

-----------------------------------------------------------------------------
(* The calendar part *)

\* pst_rfc2426_escape of libpst: a backslash before ',', ';' and '\', a
\* newline as \n, no '\r'
RECURSIVE pst_rfc2426_escape(_)
pst_rfc2426_escape(str) ==
    IF str = <<>> THEN <<>>
    ELSE LET c == Head(str) IN
         (IF c \in {44, 59, 92} THEN <<92, c>>
          ELSE IF c = 10 THEN <<92, 110>>
          ELSE IF c = 13 THEN <<>>
          ELSE <<c>>)
         \o pst_rfc2426_escape(Tail(str))

\* write_extra_categories: what it writes; extra_fields is the list
\* item->extra_fields, and nothing written stands for the return value 0
write_extra_categories(extra_fields) ==
    LET keywords == SelectSeq(extra_fields, LAMBDA ef : ef.field_name = "Keywords")
    IN
    [i \in 1..Len(keywords) |->
        Tok("CATEGORIES", IF i = 1 THEN "CATEGORIES:%s" ELSE ", %s",
            <<pst_rfc2426_escape(keywords[i].value)>>)]
    \o (IF Len(keywords) > 0 THEN << Tok("CATEGORIES-nl", "\n", <<>>) >> ELSE <<>>)

days == << S("SU"), S("MO"), S("TU"), S("WE"), S("TH"), S("FR"), S("SA") >>
rules == << S("DAILY"), S("WEEKLY"), S("MONTHLY"), S("YEARLY") >>

\* the loop that builds byday, run over all seven days; C14 fails of it
RECURSIVE byday_loop_week(_, _, _)
byday_loop_week(bydaymask, i, byday) ==
    IF i >= 7 THEN byday
    ELSE IF (bydaymask \div (2 ^ i)) % 2 = 1
    THEN byday_loop_week(bydaymask, i + 1,
             Truncate(byday \o (IF byday = <<>> THEN S(";BYDAY=") ELSE S(";"))
                            \o days[i + 1], 40))
    ELSE byday_loop_week(bydaymask, i + 1, byday)

\* the loop that builds byday; i counts from 0
RECURSIVE byday_loop(_, _, _)
byday_loop(bydaymask, i, byday) ==
    IF i >= 6 THEN byday
    ELSE IF (bydaymask \div (2 ^ i)) % 2 = 1
    THEN byday_loop(bydaymask, i + 1,
             Truncate(byday \o (IF byday = <<>> THEN S(";BYDAY=") ELSE S(";"))
                            \o days[i + 1], 40))
    ELSE byday_loop(bydaymask, i + 1, byday)

\* the RRULE line, rdata being what pst_convert_recurrence returns
write_rrule(rdata) ==
    << Tok("RRULE", "RRULE:FREQ=%s", <<rules[rdata.type + 1]>>) >>
    \o (IF rdata.count # 0
        THEN << Tok("RRULE-COUNT", ";COUNT=%u", <<Digits(rdata.count)>>) >> ELSE <<>>)
    \o (IF rdata.interval # 1 /\ rdata.interval # 0
        THEN << Tok("RRULE-INTERVAL", ";INTERVAL=%u", <<Digits(rdata.interval)>>) >>
        ELSE <<>>)
    \o (IF rdata.dayofmonth # 0
        THEN << Tok("RRULE-BYMONTHDAY", ";BYMONTHDAY=%d", <<Digits(rdata.dayofmonth)>>) >>
        ELSE <<>>)
    \o (IF rdata.monthofyear # 0
        THEN << Tok("RRULE-BYMONTH", ";BYMONTH=%d", <<Digits(rdata.monthofyear)>>) >>
        ELSE <<>>)
    \o (IF rdata.position # 0
        THEN << Tok("RRULE-BYSETPOS", ";BYSETPOS=%d", <<Digits(rdata.position)>>) >>
        ELSE <<>>)
    \o (IF rdata.bydaymask # 0
        THEN << Tok("RRULE-BYDAY", "%s", <<byday_loop(rdata.bydaymask, 0, <<>>)>>) >>
        ELSE <<>>)
    \o << Tok("RRULE-nl", "\n", <<>>) >>

Labels ==
    [IMPORTANT |-> "CATEGORIES:IMPORTANT\n", BUSINESS |-> "CATEGORIES:BUSINESS\n",
     PERSONAL |-> "CATEGORIES:PERSONAL\n", VACATION |-> "CATEGORIES:VACATION\n",
     MUST_ATTEND |-> "CATEGORIES:MUST-ATTEND\n",
     TRAVEL_REQ |-> "CATEGORIES:TRAVEL-REQUIRED\n",
     NEEDS_PREP |-> "CATEGORIES:NEEDS-PREPARATION\n",
     BIRTHDAY |-> "CATEGORIES:BIRTHDAY\n", ANNIVERSARY |-> "CATEGORIES:ANNIVERSARY\n",
     PHONE_CALL |-> "CATEGORIES:PHONE-CALL\n"]

\* lines 1342-1354 with a break after the line for free; C15 fails of it
write_showas_break(appointment) ==
    CASE appointment.showas = "TENTATIVE" ->
            << Tok("STATUS", "STATUS:TENTATIVE\n", <<>>) >>
      [] appointment.showas = "FREE" ->
            << Tok("TRANSP", "TRANSP:TRANSPARENT\n", <<>>) >>
      [] appointment.showas \in {"BUSY", "OUT_OF_OFFICE"} ->
            << Tok("STATUS", "STATUS:CONFIRMED\n", <<>>) >>
      [] OTHER -> <<>>

\* lines 1342-1354: the switch on appointment->showas
write_showas(appointment) ==
    CASE appointment.showas = "TENTATIVE" ->
            << Tok("STATUS", "STATUS:TENTATIVE\n", <<>>) >>
      [] appointment.showas = "FREE" ->
            << Tok("TRANSP", "TRANSP:TRANSPARENT\n", <<>>),
               Tok("STATUS", "STATUS:CONFIRMED\n", <<>>) >>
      [] appointment.showas \in {"BUSY", "OUT_OF_OFFICE"} ->
            << Tok("STATUS", "STATUS:CONFIRMED\n", <<>>) >>
      [] OTHER -> <<>>

\* lines 1385-1419 with the Keywords written whatever the label; C17 fails
\* of it
write_label_keywords(item) ==
    LET cats == write_extra_categories(item.extra_fields) IN
    IF cats = <<>> THEN << Tok("CATEGORIES", "CATEGORIES:NONE\n", <<>>) >> ELSE cats

\* lines 1385-1419: the switch on appointment->label
write_label(item) ==
    IF item.appointment.label = "NONE"
    THEN LET cats == write_extra_categories(item.extra_fields) IN
         IF cats = <<>> THEN << Tok("CATEGORIES", "CATEGORIES:NONE\n", <<>>) >>
         ELSE cats
    ELSE IF item.appointment.label \in DOMAIN Labels
    THEN << Tok("CATEGORIES", Labels[item.appointment.label], <<>>) >>
    ELSE <<>>

\* lines 1420-1427 without the test of the minutes; C16 fails of it
write_alarm_unchecked(appointment) ==
    IF appointment.alarm
    THEN << Tok("VALARM", "BEGIN:VALARM\n", <<>>),
            Tok("TRIGGER", "TRIGGER:-PT%dM\n", <<SignedDigits(appointment.alarm_minutes)>>),
            Tok("ACTION", "ACTION:DISPLAY\n", <<>>),
            Tok("DESCRIPTION-alarm", "DESCRIPTION:Reminder\n", <<>>),
            Tok("END-VALARM", "END:VALARM\n", <<>>) >>
    ELSE <<>>

\* lines 1420-1427: the alarm
write_alarm(appointment) ==
    IF appointment.alarm /\ appointment.alarm_minutes >= 0
       /\ appointment.alarm_minutes < 1440
    THEN << Tok("VALARM", "BEGIN:VALARM\n", <<>>),
            Tok("TRIGGER", "TRIGGER:-PT%dM\n", <<SignedDigits(appointment.alarm_minutes)>>),
            Tok("ACTION", "ACTION:DISPLAY\n", <<>>),
            Tok("DESCRIPTION-alarm", "DESCRIPTION:Reminder\n", <<>>),
            Tok("END-VALARM", "END:VALARM\n", <<>>) >>
    ELSE <<>>

\* write_appointment; the dates are written as pst_rfc2445_datetime_format
\* of libpst formats them, which the entry names with the date's number;
\* now is the time pst_rfc2445_datetime_format_now reads from the clock
write_appointment(item, now) ==
    LET appointment == item.appointment
        when(d) == Digits(d)
    IN
    << Tok("UID", "UID:%#llx\n",
           <<IF item.block_id = 0 THEN S("0") ELSE S("0x") \o HexDigits(item.block_id)>>),
       Tok("DTSTAMP", "DTSTAMP:%s\n", <<when(now)>>) >>
    \o (IF item.create_date # 0
        THEN << Tok("CREATED", "CREATED:%s\n", <<when(item.create_date)>>) >> ELSE <<>>)
    \o (IF item.modify_date # 0
        THEN << Tok("LAST-MOD", "LAST-MOD:%s\n", <<when(item.modify_date)>>) >> ELSE <<>>)
    \o (IF item.subject # NULL
        THEN << Tok("SUMMARY", "SUMMARY:%s\n", <<pst_rfc2426_escape(item.subject)>>) >>
        ELSE <<>>)
    \o (IF ~item.body.null
        THEN << Tok("DESCRIPTION", "DESCRIPTION:%s\n",
                    <<pst_rfc2426_escape(removeCR(item.body.str))>>) >>
        ELSE <<>>)
    \o (IF appointment.start # 0
        THEN << Tok("DTSTART", "DTSTART;VALUE=DATE-TIME:%s\n", <<when(appointment.start)>>) >>
        ELSE <<>>)
    \o (IF appointment.end # 0
        THEN << Tok("DTEND", "DTEND;VALUE=DATE-TIME:%s\n", <<when(appointment.end)>>) >>
        ELSE <<>>)
    \o (IF appointment.location # NULL
        THEN << Tok("LOCATION", "LOCATION:%s\n",
                    <<pst_rfc2426_escape(appointment.location)>>) >>
        ELSE <<>>)
    \o write_showas(appointment)
    \o (IF appointment.is_recurring THEN write_rrule(appointment.rdata) ELSE <<>>)
    \o write_label(item)
    \o write_alarm(appointment)
    \o << Tok("END-VEVENT", "END:VEVENT\n", <<>>) >>

write_schedule_part_data(item, sender, method, now) ==
    << Tok("BEGIN-VCALENDAR", "BEGIN:VCALENDAR\n", <<>>),
       Tok("PRODID", "PRODID:LibPST\n", <<>>) >>
    \o (IF method # NULL THEN << Tok("METHOD", "METHOD:%s\n", <<method>>) >> ELSE <<>>)
    \o << Tok("BEGIN-VEVENT", "BEGIN:VEVENT\n", <<>>) >>
    \o (IF sender # NULL
        THEN IF item.outlook_sender_name # NULL
             THEN << Tok("ORGANIZER", "ORGANIZER;CN=\"%s\":MAILTO:%s\n",
                         <<item.outlook_sender_name, sender>>) >>
             ELSE << Tok("ORGANIZER", "ORGANIZER;CN=\"\":MAILTO:%s\n", <<sender>>) >>
        ELSE <<>>)
    \o write_appointment(item, now)
    \o << Tok("END-VCALENDAR", "END:VCALENDAR\n", <<>>) >>

\* write_schedule_part with the inline part only; C12 fails of it
write_schedule_part_inline(item, sender, boundary, r, now1, now2) ==
    IF item.appointment.null THEN <<>>
    ELSE
    << Tok("cal-boundary", "\n--%s\n", <<boundary>>),
       Tok("cal-Content-Type", "Content-Type: %s; method=\"%s\"; charset=\"%s\"\n\n",
           <<S("text/calendar"), Lit.REQUEST, Lit.utf8>>) >>
    \o write_schedule_part_data(item, sender, Lit.REQUEST, now1)
    \o << Tok("cal-nl", "\n", <<>>) >>

\* write_schedule_part, r being what rand() returns and now1, now2 what the
\* clock gives when the first and the second part are written;
\* item.appointment.null holds for a null pointer
write_schedule_part(item, sender, boundary, r, now1, now2) ==
    IF item.appointment.null THEN <<>>
    ELSE
    LET fname == Truncate(Lit.ics_head \o Digits(r) \o Lit.ics_tail, 30) IN
    << Tok("cal-boundary", "\n--%s\n", <<boundary>>),
       Tok("cal-Content-Type", "Content-Type: %s; method=\"%s\"; charset=\"%s\"\n\n",
           <<S("text/calendar"), Lit.REQUEST, Lit.utf8>>) >>
    \o write_schedule_part_data(item, sender, Lit.REQUEST, now1)
    \o << Tok("cal-nl", "\n", <<>>),
          Tok("cal-boundary", "\n--%s\n", <<boundary>>),
          Tok("cal-Content-Type", "Content-Type: %s; charset=\"%s\"; name=\"%s\"\n",
              <<S("text/calendar"), Lit.utf8, fname>>),
          Tok("cal-Disposition", "Content-Disposition: attachment; filename=\"%s\"\n\n",
              <<fname>>) >>
    \o write_schedule_part_data(item, sender, Lit.REQUEST, now2)
    \o << Tok("cal-nl", "\n", <<>>) >>

-----------------------------------------------------------------------------
(* The calls of write_normal_email *)

\* a call of write_normal_email at its entry; caller is the call whose
\* attachment number catt it serialises (0 for the call made by process)
NewCall(item, embedding, caller, catt) ==
    [item |-> item, embedding |-> embedding, caller |-> caller, catt |-> catt,
     pc |-> "Start", src |-> "none", headers |-> NULL,
     has_from |-> FALSE, has_to |-> FALSE, has_subject |-> FALSE,
     has_date |-> FALSE, has_cc |-> FALSE, has_msgid |-> FALSE,
     body_charset |-> <<>>, body_report |-> <<>>, sender |-> <<>>,
     boundary |-> <<>>, altboundary |-> <<>>, attach |-> item.attach, n |-> 0]

Cur == calls[cur]

\* the item of an embedded call is freed when the call returns (line 452)
Freed(i) == calls[i].embedding = 1 /\ calls[i].pc = "Closed"

\* what freed memory can hold when it is read as a string
FreedMemory == { <<>>, S("X-x: \n\nTo: q\n") }

\* what a read of the string at *extra_mime_headers can give: its content,
\* or, when the item whose header buffer it points into was freed, whatever
\* the freed memory holds by then
ExtraReads ==
    IF extra.p # NULL /\ extra.owner # 0 /\ Freed(extra.owner)
    THEN {extra.p} \cup FreedMemory
    ELSE {extra.p}

\* rand() returns an int between 0 and RAND_MAX
RandValues == {0, 2147483647}

\* what time() returns while an item is written: the second may pass
ClockValues == {5, 6}

\* lines 804-904
ResolveHeaders ==
    /\ cur # 0
    /\ Cur.pc = "Start"
    /\ \E r \in RandValues, xp \in ExtraReads :
         \E res \in {resolve_headers(Cur.item, xp)}, boundary \in {make_boundary(r)} :
             /\ calls' = [calls EXCEPT ![cur] =
                    [@ EXCEPT !.pc = "HeadersResolved",
                              !.src = res.src, !.headers = res.headers,
                              !.has_from = res.has_from, !.has_to = res.has_to,
                              !.has_subject = res.has_subject,
                              !.has_date = res.has_date, !.has_cc = res.has_cc,
                              !.has_msgid = res.has_msgid,
                              !.body_charset = res.body_charset,
                              !.body_report = res.body_report,
                              !.sender = res.sender,
                              !.boundary = boundary,
                              !.altboundary = make_altboundary(boundary)]]
             /\ extra' = IF res.src = "own" /\ res.tail # NULL /\ extra.p = NULL
                         THEN [p |-> res.tail, owner |-> cur]
                         ELSE IF res.src = "extra"
                         THEN [extra EXCEPT !.p = res.headers]
                         ELSE extra
    /\ UNCHANGED <<cur, out, arg>>

\* lines 906-999
WriteEnvelope ==
    /\ cur # 0
    /\ Cur.pc = "HeadersResolved"
    /\ out' = out \o Tag(print_headers(Cur) \o required_headers(Cur)
                         \o forensic_headers(Cur) \o mime_headers(Cur), cur, 0)
    /\ calls' = [calls EXCEPT ![cur].pc = "EnvelopeWritten"]
    /\ UNCHANGED <<cur, extra, arg>>

\* lines 1001-1028
WriteBodies ==
    /\ cur # 0
    /\ Cur.pc = "EnvelopeWritten"
    /\ out' = out \o Tag(body_parts(Cur), cur, 0)
    /\ calls' = [calls EXCEPT ![cur].pc = "BodyWritten"]
    /\ UNCHANGED <<cur, extra, arg>>

\* lines 1030-1067
PromoteAndSchedule ==
    /\ cur # 0
    /\ Cur.pc = "BodyWritten"
    /\ \E r \in IF Cur.item.type = "SCHEDULE" /\ ~Cur.item.appointment.null
                THEN RandValues ELSE {0} :
       \E now1, now2 \in IF Cur.item.type = "SCHEDULE" /\ ~Cur.item.appointment.null
                          THEN ClockValues ELSE {5} :
         /\ now1 <= now2
         /\ out' = out \o Tag(IF Cur.item.type = "SCHEDULE"
                              THEN write_schedule_part(Cur.item, Cur.sender, Cur.boundary,
                                                       r, now1, now2)
                              ELSE <<>>, cur, 0)
    /\ calls' = [calls EXCEPT ![cur] =
                    [@ EXCEPT !.pc = "Attachments",
                              !.attach = promote(Cur.item, strdup(Lit.rtf_name, TRUE),
                                                 strdup(Lit.rtf_mime, TRUE)),
                              !.item = [Cur.item EXCEPT !.encrypted_body = FALSE,
                                                        !.encrypted_htmlbody = FALSE]]]
    /\ UNCHANGED <<cur, extra, arg>>

\* lines 1073-1092: one round of the loop over the attachments
Attach ==
    /\ cur # 0
    /\ Cur.pc = "Attachments"
    /\ Cur.n < Len(Cur.attach)
    /\ LET i  == Cur.n + 1
           a0 == Cur.attach[i]
           a  == IF a0.method = "EMBEDDED"
                 THEN [a0 EXCEPT !.mimetype = Lit.RFC822] ELSE a0
           stepped == [calls EXCEPT ![cur].n = i, ![cur].attach[i] = a]
       IN  IF a.method = "EMBEDDED"
           THEN /\ \E xp \in ExtraReads :
                     extra' = IF extra.p = NULL THEN extra
                              ELSE [extra EXCEPT !.p = find_rfc822_headers(xp)]
                /\ out' = out \o Tag(write_embedded_message(a, Cur.boundary), cur, i)
                /\ IF a.inner.parsed /\ a.inner.email
                   THEN /\ calls' = Append(stepped, NewCall(a.inner, 1, cur, i))
                        /\ cur' = Len(calls) + 1
                   ELSE /\ calls' = stepped
                        /\ cur' = cur
           ELSE /\ out' = out \o Tag(IF a.data \/ a.i_id # 0
                                     THEN write_inline_attachment(a, Cur.boundary)
                                     ELSE <<>>, cur, i)
                /\ calls' = stepped
                /\ UNCHANGED <<cur, extra>>
    /\ UNCHANGED arg

\* line 1095, and the return to the caller
Close ==
    /\ cur # 0
    /\ Cur.pc = "Attachments"
    /\ Cur.n = Len(Cur.attach)
    /\ out' = out \o Tag(<< Tok("close", "\n--%s--\n\n", <<Cur.boundary>>) >>, cur, 0)
    /\ calls' = [calls EXCEPT ![cur].pc = "Closed"]
    /\ cur' = Cur.caller
    /\ UNCHANGED <<extra, arg>>

\* lines 452, 806 and 684-687: when the buffer *extra_mime_headers points
\* into was freed with the embedded item that owned it, the read made by
\* valid_headers or find_rfc822_headers can end the process
Fault ==
    /\ cur # 0
    /\ extra.p # NULL /\ extra.owner # 0 /\ Freed(extra.owner)
    /\ \/ Cur.pc = "Start" /\ ~valid_headers(Cur.item.header)
       \/ /\ Cur.pc = "Attachments"
          /\ Cur.n < Len(Cur.attach)
          /\ Cur.attach[Cur.n + 1].method = "EMBEDDED"
    /\ cur' = 0
    /\ UNCHANGED <<calls, extra, out, arg>>

Next ==
    \/ ResolveHeaders
    \/ WriteEnvelope
    \/ WriteBodies
    \/ PromoteAndSchedule
    \/ Attach
    \/ Close
    \/ Fault

-----------------------------------------------------------------------------
(* The items serialised *)

MaxLines  == 3      \* lines of a header blob
MaxGroups == 2      \* header groups after the first blank line of a blob
MaxAttach == 2      \* attachments of an item

NoBody == [null |-> TRUE, str |-> <<>>, is_utf8 |-> FALSE]
Body(str, is_utf8) == [null |-> FALSE, str |-> str, is_utf8 |-> is_utf8]

PlainText == S("Hi\r\nFrom me\n")
HtmlText  == S("<b>Hi</b>") \o <<1>>

\* item->appointment == NULL
NoAppointment == [null |-> TRUE]

\* a mail item with nothing but a sender-less envelope
BaseItem ==
    [parsed |-> TRUE, email |-> TRUE, type |-> "NOTE", header |-> NULL,
     charset |-> S("windows-1252"), sender_address |-> NULL,
     outlook_sender_name |-> NULL, sent_date |-> 0, subject |-> NULL,
     sentto_address |-> NULL, cc_address |-> NULL, messageid |-> NULL,
     bcc_address |-> NULL, read |-> FALSE, report_text |-> NoBody,
     body |-> NoBody, htmlbody |-> NoBody, rtf_compressed |-> FALSE,
     encrypted_body |-> FALSE, encrypted_htmlbody |-> FALSE,
     appointment |-> NoAppointment, block_id |-> 0, create_date |-> 0, modify_date |-> 0,
     extra_fields |-> <<>>, attach |-> <<>>]

\* the sender address and the optional envelope fields an item carries
Envelopes ==
    { [sender |-> NULL, subject |-> NULL, sentto |-> NULL, cc |-> NULL,
       messageid |-> NULL, bcc |-> NULL, name |-> NULL, sent_date |-> 0,
       read |-> FALSE],
      [sender |-> S("a@b"), subject |-> S("Hi"), sentto |-> S("t@x"), cc |-> NULL,
       messageid |-> S("<m@x>"), bcc |-> NULL, name |-> NULL, sent_date |-> 1,
       read |-> FALSE],
      [sender |-> S("bob"), subject |-> S("Hi all"), sentto |-> S("t@x"),
       cc |-> S("c@x"), messageid |-> S("<m@x>"), bcc |-> S("b@x"),
       name |-> S("Ann"), sent_date |-> 2, read |-> TRUE] }

WithEnvelope(item, env) ==
    [item EXCEPT !.sender_address = env.sender,
                 !.subject = env.subject, !.sentto_address = env.sentto,
                 !.cc_address = env.cc, !.messageid = env.messageid,
                 !.bcc_address = env.bcc, !.outlook_sender_name = env.name,
                 !.sent_date = env.sent_date, !.read = env.read]

\* the lines header blobs are made of
HeaderLines ==
    { S("From: Al <al@x>\n"), S("subject: s\r\n"), S("To: t\n"), S("F\n"),
      S("Content-Type: text/plain;\n\tcharset=\"k\"\n"),
      S("CC: c\nDate: d\nMessage-ID: <i>\n"), S("junk") }

RECURSIVE Blobs(_, _)
Blobs(lines, n) ==
    IF n = 0 THEN {<<>>}
    ELSE LET shorter == Blobs(lines, n - 1) IN
         shorter \cup { b \o l : b \in shorter, l \in lines }

HeaderBlobs == {NULL} \cup Blobs(HeaderLines, MaxLines)

\* the header groups a blob can carry after its first blank line
HeaderGroups ==
    { S("Content-Type: message/rfc822\n"), S("Content-Type: text/plain\n"),
      S("From: Cy <cy@x>\nDate: d\n") }

RECURSIVE Chains(_, _)
Chains(groups, n) ==
    IF n = 0 THEN {<<>>}
    ELSE LET shorter == Chains(groups, n - 1) IN
         shorter \cup { g \o <<10>> \o c : g \in groups, c \in shorter }

HeaderChains == Chains(HeaderGroups, MaxGroups)

\* mail items that embed no other: without a header blob, and with one that
\* carries a header group of its own
LeafItems ==
    { [BaseItem EXCEPT !.body = Body(PlainText, FALSE)],
      [BaseItem EXCEPT !.header = S("Subject: own\n\nX: y\n"), !.sent_date = 1,
                       !.body = Body(PlainText, FALSE)] }

NormalKinds ==
    { [NewAttach EXCEPT !.method = "NORMAL", !.data = TRUE, !.content = S("bytes"),
                        !.mimetype = S("text/x"), !.filename2 = S("long \"name\""),
                        !.content_id = S("cid")],
      [NewAttach EXCEPT !.method = "NORMAL", !.i_id = 7, !.resolves = TRUE,
                        !.content = S("fetched"), !.filename1 = S("short")],
      [NewAttach EXCEPT !.method = "NORMAL", !.i_id = 8],
      [NewAttach EXCEPT !.method = "NORMAL"] }

\* an embedded attachment that pst_parse_item cannot parse, and the embedded
\* mail items
EmbeddedKinds ==
    { [NewAttach EXCEPT !.method = "EMBEDDED", !.i_id = 9, !.mimetype = S("x/y")] }
    \cup { [NewAttach EXCEPT !.method = "EMBEDDED", !.i_id = 9, !.inner = m] :
             m \in LeafItems }

\* an embedded attachment that parses as something else than a mail item
NonMail ==
    [NewAttach EXCEPT !.method = "EMBEDDED", !.i_id = 9,
                      !.inner = [parsed |-> TRUE, email |-> FALSE]]

RECURSIVE Lists(_, _)
Lists(kinds, n) ==
    IF n = 0 THEN {<<>>}
    ELSE LET shorter == Lists(kinds, n - 1) IN
         shorter \cup { <<x>> \o l : x \in kinds, l \in { k \in shorter : Len(k) = n - 1 } }

AttachKinds == NormalKinds \cup EmbeddedKinds \cup {NonMail}
AttachLists == Lists(AttachKinds, MaxAttach)
EmbeddedLists == Lists(EmbeddedKinds, MaxAttach)

Appointment ==
    [null |-> FALSE, start |-> 3, end |-> 4, location |-> S("Room 1, east"), showas |-> "FREE",
     is_recurring |-> TRUE,
     rdata |-> [type |-> 1, count |-> 0, interval |-> 2, dayofmonth |-> 0,
                monthofyear |-> 0, position |-> 0, bydaymask |-> 42],
     label |-> "NONE", alarm |-> TRUE, alarm_minutes |-> 15]

\* an item that differs in its header blob and envelope
HeaderItem(h, env) ==
    WithEnvelope([BaseItem EXCEPT !.header = h, !.body = Body(PlainText, FALSE)], env)

Promotions == { <<FALSE, FALSE, FALSE>>, <<TRUE, TRUE, TRUE>>, <<TRUE, FALSE, TRUE>> }

\* an item that differs in its parts
PartItem(t, b, p, l) ==
    [BaseItem EXCEPT !.type = t, !.read = TRUE, !.sender_address = S("bob"),
                     !.header = S("To: t\n"),
                     !.appointment = IF t = "SCHEDULE" THEN Appointment ELSE NoAppointment,
                     !.block_id = 26, !.extra_fields = << [field_name |-> "Keywords", value |-> S("a,b")],
                                         [field_name |-> "Other", value |-> S("x")],
                                         [field_name |-> "Keywords", value |-> S("c")] >>,
                     !.report_text = IF t = "REPORT" THEN Body(PlainText, TRUE) ELSE NoBody,
                     !.body = IF b[1] THEN Body(PlainText, FALSE) ELSE NoBody,
                     !.htmlbody = IF b[2] THEN Body(HtmlText, TRUE) ELSE NoBody,
                     !.rtf_compressed = p[1], !.encrypted_body = p[2],
                     !.encrypted_htmlbody = p[3],
                     !.attach = l]

ContextHeads == { S("To: t\r\n"), S("junk\n") }

\* an item whose header blob carries the header groups of embedded messages
ContextItem(h, c, l) ==
    [BaseItem EXCEPT !.header = h \o <<10>> \o c, !.attach = l]

\* header blobs that declare a charset, or fail to
CharsetBlobs ==
    { NULL, S("To: t\n"),
      S("Content-Type: text/plain; charset=k\n"),
      S("To: t\r\nContent-Type: text/plain; charset=\"q\"; x=y\r\n"),
      S("To: t\ncontent-type: text/plain;\n\tcharset=\"k\"\n"),
      S("To: t\nContent-Type: a/b; Charset=\n"),
      S("To: t\nContent-Type: a/b; charset=abcdefghijklmnopqrstuvwxyz0123456789\n") }

\* an item that differs in the charset its header blob declares and in the
\* UTF-8 flags of its bodies
CharsetItem(h, t, u) ==
    [BaseItem EXCEPT !.header = h, !.type = t,
                     !.report_text = IF t = "REPORT" THEN Body(PlainText, u[1]) ELSE NoBody,
                     !.body = Body(PlainText, u[1]),
                     !.htmlbody = Body(HtmlText, u[2])]

InitItem(item) ==
    /\ calls = << NewCall(item, 0, 0, 0) >>
    /\ cur = 1
    /\ extra = [p |-> NULL, owner |-> 0]
    /\ out = <<>>
    /\ arg = <<>>

Init ==
    \/ \E h \in HeaderBlobs, env \in Envelopes :
          InitItem(HeaderItem(h, env))
    \/ \E t \in {"NOTE", "REPORT", "SCHEDULE"}, b \in BOOLEAN \X BOOLEAN,
          p \in Promotions, l \in {<<>>} \cup {<<a>> : a \in AttachKinds} :
          InitItem(PartItem(t, b, p, l))
    \/ \E b \in {<<FALSE, FALSE>>, <<TRUE, TRUE>>}, l \in AttachLists :
          InitItem(PartItem("NOTE", b, <<FALSE, FALSE, FALSE>>, l))
    \/ \E h \in ContextHeads, c \in HeaderChains, l \in EmbeddedLists :
          InitItem(ContextItem(h, c, l))
    \/ \E h \in CharsetBlobs, t \in {"NOTE", "REPORT"}, u \in BOOLEAN \X BOOLEAN :
          InitItem(CharsetItem(h, t, u))
    \/ \E b \in BOOLEAN \X BOOLEAN, l \in {<<>>} \cup {<<a>> : a \in NormalKinds} :
          InitItem([PartItem("SCHEDULE", b, <<FALSE, FALSE, FALSE>>, l)
                        EXCEPT !.appointment = NoAppointment])

Spec == Init /\ [][Next]_vars

-----------------------------------------------------------------------------
(* write_body_part on its own *)

MaxFrags == 3       \* fragments of a body

\* a run of bytes that fills more than one line of base64
LongRun == [i \in 1..58 |-> 1 + (i % 3)]

BodyFragments ==
    { <<13>>, <<10>>, <<9>>, <<1>>, <<31>>, <<62>>, <<255>>, S("a"), S("From "), LongRun }

Bodies == Blobs(BodyFragments, MaxFrags)

InitBody ==
    /\ \E b \in Bodies, u \in BOOLEAN :
         arg = [body |-> Body(b, u), mime |-> Lit.text_plain,
                charset |-> S("windows-1252"), boundary |-> make_boundary(0)]
    /\ out = <<>>
    /\ calls = <<>>
    /\ cur = 0
    /\ extra = [p |-> NULL, owner |-> 0]

WriteBodyPart ==
    /\ cur = 0
    /\ out = <<>>
    /\ out' = write_body_part(arg.body, arg.mime, arg.charset, arg.boundary)
    /\ UNCHANGED <<calls, cur, extra, arg>>

NextBody == WriteBodyPart

SpecBody == InitBody /\ [][NextBody]_vars

-----------------------------------------------------------------------------
(* Reading the output *)

\* the entries a call of write_normal_email wrote itself, in order
Toks(i) == SelectSeq(out, LAMBDA t : t.inv = i)

\* how many entries of call i come from the call site k
Count(i, k) == Cardinality({p \in 1..Len(out) : out[p].inv = i /\ out[p].k = k})

\* call i has written its header section
PastEnvelope(i) == calls[i].pc \notin {"Start", "HeadersResolved"}

\* call i has written its body parts
PastBodies(i) == calls[i].pc \in {"BodyWritten", "Attachments", "Closed"}

CanonKinds == {"From", "To", "Subject", "Cc", "Date", "Message-Id"}

FieldName ==
    [From |-> S("From:"), To |-> S("To:"), Subject |-> S("Subject:"), Cc |-> S("Cc:"),
     Date |-> S("Date:"), Message_Id |-> S("Message-Id:")]

NameOf(k) == IF k = "Message-Id" THEN FieldName.Message_Id ELSE FieldName[k]

\* the presence flag of a canonical field in a call
Flag(c, k) ==
    CASE k = "From" -> c.has_from
      [] k = "To" -> c.has_to
      [] k = "Subject" -> c.has_subject
      [] k = "Cc" -> c.has_cc
      [] k = "Date" -> c.has_date
      [] k = "Message-Id" -> c.has_msgid

\* whether the item carries the value a synthesized line of the field needs
Carries(item, k) ==
    CASE k = "To" -> item.sentto_address # NULL
      [] k = "Cc" -> item.cc_address # NULL
      [] k = "Date" -> item.sent_date # 0
      [] k = "Message-Id" -> item.messageid # NULL
      [] OTHER -> TRUE

\* the header block call i wrote verbatim, the empty string if it wrote none
BlockText(i) ==
    IF \E p \in 1..Len(out) : out[p].inv = i /\ out[p].k = "headers"
    THEN out[CHOOSE p \in 1..Len(out) : out[p].inv = i /\ out[p].k = "headers"].a[1]
    ELSE <<>>

\* where a line of text begins with name, letter case aside
LinesWith(text, name) ==
    { p \in 1..Len(text) :
        /\ p = 1 \/ text[p - 1] = 10
        /\ \A j \in 1..Len(name) : tolower(Ch(text, p + j - 1)) = tolower(name[j]) }

\* call j is call i or was made, directly or not, for an attachment of call i
RECURSIVE Within(_, _)
Within(j, i) ==
    IF j = i THEN TRUE
    ELSE IF j = 0 THEN FALSE
    ELSE Within(calls[j].caller, i)

-----------------------------------------------------------------------------
(* The canonical header fields *)

C2_PresentNeverSynthesized ==
    \A i \in 1..Len(calls) :
        PastEnvelope(i) =>
            \A k \in CanonKinds :
                LinesWith(BlockText(i), NameOf(k)) # {} =>
                    Flag(calls[i], k) /\ Count(i, k) = 0

-----------------------------------------------------------------------------
(* The boundaries *)

\* a value of rand() for every number of digits
RandSamples == {0, 2147483647} \cup { 10 ^ d - 1 : d \in 1..9 }

\* C4: within one call of write_normal_email the outer and the alternative
\* boundary are different strings, whatever rand() returned.
C4_BoundariesDiffer ==
    /\ \A i \in 1..Len(calls) :
          calls[i].pc # "Start" => calls[i].boundary # calls[i].altboundary
    /\ \A r \in RandSamples : make_altboundary(make_boundary(r)) # make_boundary(r)

\* a call that made its boundaries from the largest value of rand()
C4_Witness ==
    \E i \in 1..Len(calls) :
        /\ calls[i].pc # "Start"
        /\ calls[i].boundary = S("--boundary-LibPST-iamunique-2147483647_-_-")
        /\ calls[i].altboundary = S("alt---boundary-LibPST-iamunique-2147483647_-_-")


-----------------------------------------------------------------------------
(* The order of the output *)

\* the step of write_normal_email an entry belongs to
Phase(t) ==
    IF t.att # 0 THEN 8
    ELSE CASE t.k \in {"headers", "headers-nl"} -> 1
           [] t.k = "Status" -> 2
           [] t.k \in CanonKinds -> 3
           [] t.k \in {"X-libpst-forensic-sender", "X-libpst-forensic-bcc"} -> 4
           [] t.k \in {"MIME-Version", "Content-Type", "end-of-headers"} -> 5
           [] t.k \in {"report-nl", "alt-boundary", "alt-Content-Type", "alt-close",
                       "body-boundary", "body-Content-Type", "body-CTE", "body-blank",
                       "body-base64", "body-base64-nl", "body-text"} -> 6
           [] t.k = "close" -> 9
           [] OTHER -> 7

\* the positions of out written by call i or by a call made for one of its
\* attachments
Under(i) == { p \in 1..Len(out) : Within(out[p].inv, i) }

\* C5: what a call of write_normal_email writes is in the order header
\* text, read status, synthesized headers, forensic headers, MIME-Version
\* and outer Content-Type, body parts, calendar part, attachment parts,
\* closing boundary; the closing boundary is written once, by the time the
\* call has returned and not before, and nothing of the call or of the calls
\* made for its attachments follows it.
C5_ForwardOrder ==
    \A i \in 1..Len(calls) :
        LET T == Toks(i) IN
        /\ \A p \in 1..(Len(T) - 1) : Phase(T[p]) <= Phase(T[p + 1])
        /\ Count(i, "close") = IF calls[i].pc = "Closed" THEN 1 ELSE 0
        /\ calls[i].pc = "Closed" =>
              \A p \in Under(i) : out[p].inv = i /\ out[p].k = "close" <=>
                                  \A q \in Under(i) : q <= p

\* a scheduling request that wrote something in each of the nine steps and
\* has returned
C5_Witness ==
    \E i \in 1..Len(calls) :
        /\ calls[i].pc = "Closed"
        /\ { Phase(out[p]) : p \in { q \in 1..Len(out) : out[q].inv = i } } = 1..9
        /\ Count(i, "cal-boundary") = 2
        /\ Count(i, "att-boundary") = 1

-----------------------------------------------------------------------------
(* Attachments that are skipped *)

\* an embedded attachment whose item pst_parse_item cannot parse, or parses
\* to an item without a mail envelope
FailedEmbedded(a) ==
    a.method = "EMBEDDED" /\ (~a.inner.parsed \/ ~a.inner.email)

\* an attachment that is not embedded, has no bytes inline, and whose id is
\* zero or does not resolve
Unfetchable(a) ==
    a.method # "EMBEDDED" /\ ~a.data /\ (a.i_id = 0 \/ ~a.resolves)

\* call i has written nothing for its attachment j
NothingFor(i, j) == \A p \in 1..Len(out) : ~(out[p].inv = i /\ out[p].att = j)

\* the positions at which call i opened a part for its attachment j
Openings(i, j) ==
    { p \in 1..Len(out) : /\ out[p].inv = i /\ out[p].att = j
                          /\ out[p].k \in {"att-boundary", "emb-boundary"} }

\* the body parts an item has
BodyCount(item) ==
    (IF item.type = "REPORT" /\ ~item.report_text.null THEN 1 ELSE 0)
    + (IF ~item.body.null THEN 1 ELSE 0) + (IF ~item.htmlbody.null THEN 1 ELSE 0)

\* call i has returned, having opened a part for each of its attachments
\* outside skipped, in the order of the list, after its body parts and
\* before its closing boundary
RestWritten(i, skipped) ==
    LET c == calls[i] IN
    /\ Count(i, "body-boundary") = BodyCount(c.item)
    /\ c.pc \in {"Attachments", "Closed"}
    /\ \A k \in 1..c.n : k \notin skipped =>
          /\ Cardinality(Openings(i, k)) = 1
          /\ \A p \in 1..Len(out) :
                (out[p].inv = i /\ Phase(out[p]) = 6) =>
                    \A q \in Openings(i, k) : p < q
          /\ \A m \in 1..(k - 1), p \in 1..Len(out) :
                (out[p].inv = i /\ out[p].att = m) =>
                    \A q \in Openings(i, k) : p < q
    /\ c.pc = "Closed" =>
          /\ c.n = Len(c.attach)
          /\ Count(i, "close") = 1
          /\ \A p, q \in 1..Len(out) :
                (out[p].inv = i /\ out[p].att # 0 /\ out[q].inv = i /\ out[q].k = "close")
                    => p < q

\* C6: for an embedded attachment whose item cannot be parsed or has no
\* mail envelope nothing is written, while the body parts of the message,
\* a part for every attachment of the list that is neither such a one nor
\* unfetchable, in the order of the list, and the closing boundary are.
C6_FailedEmbeddedSkipped ==
    \A i \in 1..Len(calls) :
        LET c == calls[i]
            failed == { j \in 1..c.n : FailedEmbedded(c.attach[j]) }
        IN  failed # {} =>
               /\ \A j \in failed : NothingFor(i, j)
               /\ RestWritten(i, failed \cup
                                 { j \in 1..c.n : Unfetchable(c.attach[j]) })

\* a returned message whose first attachment parsed to something that is no
\* mail and whose second attachment was written
C6_Witness ==
    \E i \in 1..Len(calls) :
        /\ calls[i].pc = "Closed"
        /\ Len(calls[i].attach) = 2
        /\ FailedEmbedded(calls[i].attach[1])
        /\ calls[i].attach[1].inner.parsed
        /\ Openings(i, 1) = {}
        /\ Openings(i, 2) # {}
        /\ Count(i, "body-boundary") = 2

\* C7: for an attachment that is not embedded, has no bytes inline and
\* whose id does not resolve, write_inline_attachment writes nothing, and
\* the call goes on to the other attachments of the list and to the closing
\* boundary.
C7_UnfetchableSkipped ==
    /\ \A a \in NormalKinds, r \in RandValues :
          Unfetchable(a) => write_inline_attachment(a, make_boundary(r)) = <<>>
    /\ \A i \in 1..Len(calls) :
          LET c == calls[i]
              unfetchable == { j \in 1..c.n : Unfetchable(c.attach[j]) }
          IN  unfetchable # {} =>
                 /\ \A j \in unfetchable : NothingFor(i, j)
                 /\ RestWritten(i, unfetchable \cup
                                   { j \in 1..c.n : FailedEmbedded(c.attach[j]) })

\* a returned message whose first attachment has an id that does not
\* resolve and whose second attachment was fetched and written
C7_Witness ==
    \E i \in 1..Len(calls) :
        /\ calls[i].pc = "Closed"
        /\ Len(calls[i].attach) = 2
        /\ Unfetchable(calls[i].attach[1])
        /\ calls[i].attach[1].i_id # 0
        /\ Openings(i, 1) = {}
        /\ \E p \in Openings(i, 2) : out[p].k = "att-boundary"

-----------------------------------------------------------------------------
(* The transfer encoding of a body part *)

\* write_body_part has written the part of arg
BodyPartWritten == cur = 0 /\ out # <<>>

\* the entries of the part that come from the call site k
PartToks(k) == SelectSeq(out, LAMBDA t : t.k = k)

\* C8, as the specification states it: the part is base64-encoded exactly
\* when some byte of the body is below 0x20 and neither tab nor newline, and
\* is otherwise written as text without a Content-Transfer-Encoding line.
C8_Base64IffControlByte ==
    BodyPartWritten =>
        LET b == arg.body.str
            control == \E i \in 1..Len(b) : b[i] < 32 /\ b[i] \notin {9, 10}
        IN  /\ control <=> Len(PartToks("body-base64")) = 1
            /\ ~control => /\ Len(PartToks("body-CTE")) = 0
                           /\ Len(PartToks("body-text")) = 1

\* C8, as the code has it: the part is base64-encoded exactly when some
\* byte of the body is below 0x20 and none of tab, newline and carriage
\* return, the carriage returns being taken out before the bytes are
\* looked at; the encoded part has the Content-Transfer-Encoding line, and
\* any other body is written as text without that line.
C8_Base64IffControlByteButCR ==
    BodyPartWritten =>
        LET b == arg.body.str
            control == \E i \in 1..Len(b) : b[i] < 32 /\ b[i] \notin {9, 10, 13}
        IN  /\ control <=> Len(PartToks("body-base64")) = 1
            /\ control <=> Len(PartToks("body-CTE")) = 1
            /\ ~control <=> Len(PartToks("body-text")) = 1
            /\ Len(PartToks("body-base64")) + Len(PartToks("body-text")) = 1

\* a body with a carriage return, a tab and a letter, written as text
C8_Witness ==
    /\ BodyPartWritten
    /\ \E i, j, k \in 1..Len(arg.body.str) :
          arg.body.str[i] = 13 /\ arg.body.str[j] = 9 /\ arg.body.str[k] = 97
    /\ Len(PartToks("body-text")) = 1
    /\ Len(PartToks("body-CTE")) = 0

\* the value of a character of the base64 alphabet
B64Value(c) ==
    IF c >= 65 /\ c <= 90 THEN c - 65
    ELSE IF c >= 97 /\ c <= 122 THEN c - 97 + 26
    ELSE IF c >= 48 /\ c <= 57 THEN c - 48 + 52
    ELSE IF c = 43 THEN 62
    ELSE IF c = 47 THEN 63 ELSE 0

\* the bytes a base64 text stands for: line ends are skipped, every four
\* characters give three bytes, and an '=' takes one byte off the end
Base64Decode(text) ==
    LET e   == SelectSeq(text, LAMBDA c : c # 10 /\ c # 13)
        pad == Cardinality({ i \in 1..Len(e) : e[i] = 61 })
    IN  [k \in 1..(3 * (Len(e) \div 4) - pad) |->
            LET g  == (k - 1) \div 3
                j  == (k - 1) % 3
                v1 == B64Value(e[4 * g + 1])
                v2 == B64Value(e[4 * g + 2])
                v3 == B64Value(e[4 * g + 3])
                v4 == B64Value(e[4 * g + 4])
            IN  CASE j = 0 -> v1 * 4 + v2 \div 16
                  [] j = 1 -> (v2 % 16) * 16 + v3 \div 4
                  [] j = 2 -> (v3 % 4) * 64 + v4]

\* a string without its carriage returns
WithoutCR(s) ==
    LET keep == { i \in 1..Len(s) : s[i] # 13 }
        nth(k) == CHOOSE i \in keep : Cardinality({ j \in keep : j <= i }) = k
    IN  [k \in 1..Cardinality(keep) |-> s[nth(k)]]

\* the base64 text of the part, as written
EmittedBase64 == PartToks("body-base64")[1].a[1]

\* C9, as the specification states it: the base64 text written for a body
\* decodes to the bytes of the body, carriage returns included.
C9_DecodesToBody ==
    (BodyPartWritten /\ Len(PartToks("body-base64")) = 1) =>
        Base64Decode(EmittedBase64) = arg.body.str

\* C9, as the code has it: the base64 text written for a body decodes to
\* the bytes of the body without its carriage returns.
C9_DecodesToBodyWithoutCR ==
    (BodyPartWritten /\ Len(PartToks("body-base64")) = 1) =>
        Base64Decode(EmittedBase64) = WithoutCR(arg.body.str)

\* a body with a carriage return that is written in more than one line of
\* base64
C9_Witness ==
    /\ BodyPartWritten
    /\ Len(PartToks("body-base64")) = 1
    /\ \E i \in 1..Len(arg.body.str) : arg.body.str[i] = 13
    /\ \E i \in 1..Len(EmittedBase64) : EmittedBase64[i] = 10
    /\ Len(arg.body.str) > 58

-----------------------------------------------------------------------------
(* The nesting of the body parts *)

\* the lines of call i that open, declare or close a body part, each with
\* the first string it was written with
BodyShape(i) ==
    LET X == SelectSeq(Toks(i), LAMBDA t :
                 t.k \in {"alt-boundary", "alt-Content-Type", "alt-close",
                          "body-boundary", "body-Content-Type"})
    IN  [p \in 1..Len(X) |-> <<X[p].k, X[p].a[1]>>]

\* the boundary lines of call i that open a calendar or an attachment part
PartOpenings(i) ==
    { p \in 1..Len(out) : /\ out[p].inv = i
                          /\ out[p].k \in {"cal-boundary", "att-boundary", "emb-boundary"} }

\* a string is one of those an entry was written with
Shows(t, s) == \E n \in 1..Len(t.a) : t.a[n] = s

\* C10: with a plain and an HTML body, a call writes a part on the outer
\* boundary that declares multipart/alternative with the inner boundary,
\* then the plain and the HTML part, each opened with the inner boundary,
\* then the inner closing delimiter, all before any attachment part; with
\* one body only, the part is opened with the outer boundary and the call
\* writes the inner boundary nowhere; the parts of attachments are opened
\* with the outer boundary.
C10_AlternativeNesting ==
    \A i \in 1..Len(calls) :
        PastBodies(i) =>
            LET c     == calls[i]
                plain == ~c.item.body.null
                html  == ~c.item.htmlbody.null
                outer == c.boundary
                inner == c.altboundary
                report == IF c.item.type = "REPORT" /\ ~c.item.report_text.null
                          THEN << <<"body-boundary", outer>>,
                                  <<"body-Content-Type", Lit.text_plain>> >>
                          ELSE <<>>
            IN  /\ (plain /\ html) =>
                      BodyShape(i) = report \o
                          << <<"alt-boundary", outer>>, <<"alt-Content-Type", inner>>,
                             <<"body-boundary", inner>>, <<"body-Content-Type", Lit.text_plain>>,
                             <<"body-boundary", inner>>, <<"body-Content-Type", Lit.text_html>>,
                             <<"alt-close", inner>> >>
                /\ (plain /\ ~html) =>
                      BodyShape(i) = report \o
                          << <<"body-boundary", outer>>,
                             <<"body-Content-Type", Lit.text_plain>> >>
                /\ (~plain /\ html) =>
                      BodyShape(i) = report \o
                          << <<"body-boundary", outer>>,
                             <<"body-Content-Type", Lit.text_html>> >>
                /\ ~(plain /\ html) =>
                      \A p \in 1..Len(out) : out[p].inv = i => ~Shows(out[p], inner)
                /\ \A p \in PartOpenings(i) :
                      /\ out[p].a = <<outer>>
                      /\ \A q \in 1..Len(out) :
                            (out[q].inv = i /\ Phase(out[q]) = 6) => q < p

\* a returned message with both bodies and two attachments written
C10_Witness ==
    \E i \in 1..Len(calls) :
        /\ calls[i].pc = "Closed"
        /\ ~calls[i].item.body.null /\ ~calls[i].item.htmlbody.null
        /\ Count(i, "alt-close") = 1
        /\ Count(i, "att-boundary") = 1
        /\ Count(i, "emb-boundary") = 1

-----------------------------------------------------------------------------
(* The promoted attachments *)

\* the bytes of the attachments of a list, in the order of the list
Contents(l) == [k \in 1..Len(l) |-> l[k].content]

\* the bytes of the synthetic attachments of an item, the last made first
PromotedContents(item) ==
    (IF item.encrypted_htmlbody THEN << S("encrypted_htmlbody") >> ELSE <<>>)
    \o (IF item.encrypted_body THEN << S("encrypted_body") >> ELSE <<>>)
    \o (IF item.rtf_compressed THEN << S("rtf") >> ELSE <<>>)

\* the attachment numbers of the entries call i wrote in a step
NewAtt(i) ==
    { out'[p].att : p \in { q \in (Len(out) + 1)..Len(out') : out'[q].inv = i } }

\* C11: the list a call walks is the encrypted HTML body, the encrypted
\* plain body and the rich-text body, each if the item has it, and then
\* the attachments the item came with in their order; the list is walked
\* from its head, one attachment a round, and what a round writes is
\* written for the attachment of that round, so the parts are in the order
\* of the list.
C11_PromotedFirst ==
    [][\A i \in 1..Len(calls) :
          /\ (calls[i].pc = "BodyWritten" /\ calls'[i].pc = "Attachments") =>
                /\ Contents(calls'[i].attach) =
                      PromotedContents(calls[i].item) \o Contents(calls[i].item.attach)
                /\ calls'[i].n = 0
          /\ (calls[i].pc = "Attachments" /\ calls'[i] # calls[i]) =>
                /\ Contents(calls'[i].attach) = Contents(calls[i].attach)
                /\ calls'[i].n = calls[i].n + 1 \/ calls'[i].pc = "Closed"
          /\ calls[i].pc = "Attachments" =>
                NewAtt(i) \subseteq {0, calls[i].n + 1}
          /\ (calls[i].pc = "Attachments" /\ calls'[i].pc = "Attachments") =>
                NewAtt(i) \subseteq {calls[i].n + 1}]_vars

\* a returned message that wrote its three synthetic attachments and then
\* the attachment it came with
C11_Witness ==
    \E i \in 1..Len(calls) :
        /\ calls[i].pc = "Closed"
        /\ Contents(calls[i].attach) =
              << S("encrypted_htmlbody"), S("encrypted_body"), S("rtf"), S("bytes") >>
        /\ \A k \in 1..4 : Cardinality(Openings(i, k)) = 1
        /\ \A k \in 1..3 : \A p \in Openings(i, k), q \in Openings(i, k + 1) : p < q

-----------------------------------------------------------------------------
(* The calendar parts of a scheduling request *)

\* call i is past the place where the calendar parts are written
PastSchedule(i) == calls[i].pc \in {"Attachments", "Closed"}

\* what call i wrote between its body parts and its attachments
CalendarToks(i) == SelectSeq(Toks(i), LAMBDA t : Phase(t) = 7)

\* the two calendar parts of call i: the lines that open them and the
\* calendar documents they carry
CalendarParts(i) ==
    LET C == CHOOSE c \in {CalendarToks(i)} : TRUE
        d == (Len(C) - 7) \div 2
    IN  [open1 |-> SubSeq(C, 1, 2), doc1 |-> SubSeq(C, 3, 2 + d),
         nl1 |-> SubSeq(C, 3 + d, 3 + d),
         open2 |-> SubSeq(C, 4 + d, 6 + d), doc2 |-> SubSeq(C, 7 + d, 6 + 2 * d),
         nl2 |-> SubSeq(C, 7 + 2 * d, Len(C))]

EndsWith(s, tail) ==
    Len(s) >= Len(tail) /\ SubSeq(s, Len(s) - Len(tail) + 1, Len(s)) = tail

\* the calendar parts are after every body part and before every attachment
\* part of the call: no entry of the call is followed by one of an earlier
\* step
CalendarInPlace(i) ==
    \A ph \in {[p \in 1..Len(Toks(i)) |-> Phase(Toks(i)[p])]} :
        \A p \in 1..(Len(ph) - 1) : ph[p] <= ph[p + 1]

\* the lines that open the two parts: the first declares text/calendar with
\* method REQUEST, the second text/calendar with a name that ends in .ics
\* and an attachment disposition with the same file name
CalendarOpenings(i) ==
    \A P \in {CalendarParts(i)} :
    /\ Len(CalendarToks(i)) >= 7 /\ Len(CalendarToks(i)) % 2 = 1
    /\ Count(i, "cal-boundary") = 2
    /\ P.open1[1].k = "cal-boundary" /\ P.open1[1].a = <<calls[i].boundary>>
    /\ P.open1[2].k = "cal-Content-Type"
    /\ P.open1[2].a = <<S("text/calendar"), S("REQUEST"), S("utf-8")>>
    /\ P.open2[1].k = "cal-boundary" /\ P.open2[1].a = <<calls[i].boundary>>
    /\ P.open2[2].k = "cal-Content-Type"
    /\ P.open2[2].a[1] = S("text/calendar") /\ EndsWith(P.open2[2].a[3], S(".ics"))
    /\ P.open2[3].k = "cal-Disposition"
    /\ P.open2[3].fmt = "Content-Disposition: attachment; filename=\"%s\"\n\n"
    /\ P.open2[3].a = <<P.open2[2].a[3]>>
    /\ Len(P.doc1) > 0
    /\ P.doc1[1].k = "BEGIN-VCALENDAR" /\ P.doc1[Len(P.doc1)].k = "END-VCALENDAR"
    /\ P.doc2[1].k = "BEGIN-VCALENDAR" /\ P.doc2[Len(P.doc2)].k = "END-VCALENDAR"

\* C12, as the specification states it: every scheduling request gets
\* exactly two calendar parts on the outer boundary between its body parts
\* and its attachments, an inline one with method REQUEST and one offered
\* as a .ics attachment, both with the same calendar document.
C12_TwoCalendarParts ==
    \A i \in 1..Len(calls) :
        (PastSchedule(i) /\ calls[i].item.type = "SCHEDULE") =>
            /\ CalendarOpenings(i)
            /\ CalendarInPlace(i)
            /\ CalendarParts(i).doc1 = CalendarParts(i).doc2

\* C12, as the code has it: a scheduling request that has appointment data
\* gets the two calendar parts, whose documents are the same line for line
\* but for the time of writing in DTSTAMP, which is read from the clock for
\* each; a scheduling request without appointment data, like any other
\* item, gets no calendar part.
C12_TwoCalendarPartsOfAppointment ==
    \A i \in 1..Len(calls) :
        PastSchedule(i) =>
            IF calls[i].item.type = "SCHEDULE" /\ ~calls[i].item.appointment.null
            THEN /\ CalendarOpenings(i)
                 /\ CalendarInPlace(i)
                 /\ \A P \in {CalendarParts(i)} :
                    /\ Len(P.doc1) = Len(P.doc2)
                    /\ \A k \in 1..Len(P.doc1) :
                          \/ P.doc1[k] = P.doc2[k]
                          \/ /\ P.doc1[k].k = "DTSTAMP" /\ P.doc2[k].k = "DTSTAMP"
                             /\ P.doc1[k].fmt = P.doc2[k].fmt
            ELSE CalendarToks(i) = <<>>

\* a returned scheduling request with both bodies and an attachment, whose
\* two calendar documents were written in different seconds
C12_Witness ==
    \E i \in 1..Len(calls) :
        /\ calls[i].pc = "Closed"
        /\ calls[i].item.type = "SCHEDULE"
        /\ Count(i, "cal-boundary") = 2
        /\ Count(i, "body-boundary") = 2
        /\ Count(i, "att-boundary") = 1
        /\ CalendarParts(i).doc1 # CalendarParts(i).doc2

-----------------------------------------------------------------------------
(* The charset of a body part *)

\* the bodies call i writes a part for, in the order of the parts
BodiesOf(i) ==
    LET item == calls[i].item IN
    (IF item.type = "REPORT" /\ ~item.report_text.null THEN <<item.report_text>> ELSE <<>>)
    \o (IF ~item.body.null THEN <<item.body>> ELSE <<>>)
    \o (IF ~item.htmlbody.null THEN <<item.htmlbody>> ELSE <<>>)

\* the charset subfield recovered from the Content-Type field of the item's
\* own header block, NULL when none is recovered
RecoveredCharset(item) ==
    LET h1    == removeCR(item.header)
        temp  == strstr(h1, 1, Lit.NLNL)
        block == IF temp # 0 THEN SubSeq(h1, 1, temp) ELSE h1
    IN  header_get_subfield(block, header_get_field(block, Lit.ContentType),
                            Lit.charset, NULL, 30)

\* the charset a part of call i is to declare for a body
ChosenCharset(i, body) ==
    LET c == calls[i] IN
    IF body.is_utf8 THEN S("utf-8")
    ELSE IF c.src = "own" /\ RecoveredCharset(c.item) # NULL THEN RecoveredCharset(c.item)
    ELSE IF c.src = "extra" THEN c.body_charset
    ELSE Truncate(c.item.charset, 30)

\* C13: the charset in the Content-Type of a body part is utf-8 when the
\* body's UTF-8 flag is set; otherwise the charset subfield recovered from
\* the Content-Type field of the header block, when one was recovered;
\* otherwise the default charset of the item.
C13_CharsetPriority ==
    \A i \in 1..Len(calls) :
        PastBodies(i) =>
            \A T \in {SelectSeq(Toks(i), LAMBDA t : t.k = "body-Content-Type")} :
                /\ Len(T) = Len(BodiesOf(i))
                /\ \A k \in 1..Len(T) : T[k].a[2] = ChosenCharset(i, BodiesOf(i)[k])

\* a message whose header block declares the charset q, with a plain body
\* that is not flagged and an HTML body that is
C13_Witness ==
    \E i \in 1..Len(calls) :
        /\ PastBodies(i)
        /\ RecoveredCharset(calls[i].item) = S("q")
        /\ calls[i].item.charset # S("q")
        /\ \E p, q \in 1..Len(out) :
              /\ p < q
              /\ out[p].inv = i /\ out[p].k = "body-Content-Type"
              /\ out[p].a = <<S("text/plain"), S("q")>>
              /\ out[q].inv = i /\ out[q].k = "body-Content-Type"
              /\ out[q].a = <<S("text/html"), S("utf-8")>>

-----------------------------------------------------------------------------
(* An appointment entry on its own *)

\* an appointment without recurrence, alarm or label
PlainAppointment ==
    [null |-> FALSE, start |-> 3, end |-> 4, location |-> NULL, showas |-> "BUSY",
     is_recurring |-> FALSE,
     rdata |-> [type |-> 0, count |-> 0, interval |-> 0, dayofmonth |-> 0,
                monthofyear |-> 0, position |-> 0, bydaymask |-> 0],
     label |-> "NONE", alarm |-> FALSE, alarm_minutes |-> 0]

\* what pst_convert_recurrence can return
Recurrences ==
    [type : 0..3, count : {0, 10}, interval : {0, 1, 2}, dayofmonth : {0, 15},
     monthofyear : {0, 12}, position : {0, 2}, bydaymask : {0, 10, 63, 64, 65, 127}]

ShowasValues == {"FREE", "TENTATIVE", "BUSY", "OUT_OF_OFFICE", "UNKNOWN"}

\* the label codes, and one that is none of them
LabelValues == {"NONE", "UNKNOWN"} \cup DOMAIN Labels

AlarmMinutes == {-1, 0, 15, 1439, 1440, 1500}

ExtraFieldLists ==
    { <<>>,
      << [field_name |-> "Other", value |-> S("x")] >>,
      << [field_name |-> "Keywords", value |-> S("work")] >>,
      << [field_name |-> "Keywords", value |-> S("a,b")],
         [field_name |-> "Other", value |-> S("x")],
         [field_name |-> "Keywords", value |-> S("c")] >> }

AppointmentItem(ap, ef) ==
    [BaseItem EXCEPT !.type = "APPOINTMENT", !.appointment = ap, !.extra_fields = ef,
                     !.block_id = 26, !.subject = S("Review")]

InitAppointment ==
    /\ \/ \E r \in Recurrences :
             arg = [item |-> AppointmentItem([PlainAppointment EXCEPT !.is_recurring = TRUE,
                                                                     !.rdata = r], <<>>),
                    now |-> 5]
       \/ \E s \in ShowasValues, l \in LabelValues, a \in BOOLEAN, m \in AlarmMinutes,
             ef \in ExtraFieldLists :
             arg = [item |-> AppointmentItem([PlainAppointment EXCEPT !.showas = s,
                                                 !.label = l, !.alarm = a,
                                                 !.alarm_minutes = m], ef),
                    now |-> 5]
    /\ out = <<>>
    /\ calls = <<>>
    /\ cur = 0
    /\ extra = [p |-> NULL, owner |-> 0]

\* process, lines 218-222: an appointment entry is written
WriteAppointmentEntry ==
    /\ cur = 0
    /\ out = <<>>
    /\ out' = write_schedule_part_data(arg.item, NULL, NULL, arg.now)
              \o << Tok("entry-nl", "\n", <<>>) >>
    /\ UNCHANGED <<calls, cur, extra, arg>>

NextAppointment == WriteAppointmentEntry

SpecAppointment == InitAppointment /\ [][NextAppointment]_vars

\* the appointment entry of arg has been written
EntryWritten == cur = 0 /\ out # <<>>

-----------------------------------------------------------------------------
(* The contact part *)

\* a contact none of whose optional fields is set; a date of 0 is a null
\* pointer
PlainContact ==
    [fullname |-> S("Al B"), surname |-> NULL, first_name |-> NULL, middle_name |-> NULL,
     display_name_prefix |-> NULL, suffix |-> NULL, nickname |-> NULL,
     address1 |-> NULL, address2 |-> NULL, address3 |-> NULL, birthday |-> 0,
     home_po_box |-> NULL, home_street |-> NULL, home_city |-> NULL, home_state |-> NULL,
     home_postal_code |-> NULL, home_country |-> NULL, home_address |-> NULL,
     business_po_box |-> NULL, business_street |-> NULL, business_city |-> NULL,
     business_state |-> NULL, business_postal_code |-> NULL, business_country |-> NULL,
     business_address |-> NULL,
     other_po_box |-> NULL, other_street |-> NULL, other_city |-> NULL, other_state |-> NULL,
     other_postal_code |-> NULL, other_country |-> NULL, other_address |-> NULL,
     business_fax |-> NULL, business_phone |-> NULL, business_phone2 |-> NULL,
     car_phone |-> NULL, home_fax |-> NULL, home_phone |-> NULL, home_phone2 |-> NULL,
     isdn_phone |-> NULL, mobile_phone |-> NULL, other_phone |-> NULL,
     pager_phone |-> NULL, primary_fax |-> NULL, primary_phone |-> NULL,
     radio_phone |-> NULL, telex |-> NULL, job_title |-> NULL, profession |-> NULL,
     assistant_name |-> NULL, assistant_phone |-> NULL, company_name |-> NULL]

\* write_vcard, lines 1187-1221: an address with its label, adr and label
\* being the formats of its first and last fprintf
vcard_address(adr, label, po_box, street, city, state, postal_code, country, address) ==
    LET part(str) == IF str = NULL THEN <<>> ELSE pst_rfc2426_escape(str)
    IN  IF address = NULL THEN <<>>
        ELSE << Tok("ADR", adr, <<part(po_box)>>),
                Tok("extended", "%s;", << <<>> >>),
                Tok("street", "%s;", <<part(street)>>),
                Tok("city", "%s;", <<part(city)>>),
                Tok("state", "%s;", <<part(state)>>),
                Tok("postal_code", "%s;", <<part(postal_code)>>),
                Tok("country", "%s\n", <<part(country)>>),
                Tok("LABEL", label, <<pst_rfc2426_escape(address)>>) >>

\* write_vcard: what it writes for a contact whose strings are utf8 already
write_vcard(item, contact, comment) ==
    LET part(str) == IF str = NULL THEN <<>> ELSE pst_rfc2426_escape(str)
        line(fmt, str) ==
            IF str # NULL THEN << Tok(fmt, fmt, <<pst_rfc2426_escape(str)>>) >> ELSE <<>>
    IN
    << Tok("BEGIN", "BEGIN:VCARD\n", <<>>),
       Tok("FN", "FN:%s\n", <<pst_rfc2426_escape(contact.fullname)>>),
       Tok("N", "N:%s;", <<part(contact.surname)>>),
       Tok("first_name", "%s;", <<part(contact.first_name)>>),
       Tok("middle_name", "%s;", <<part(contact.middle_name)>>),
       Tok("display_name_prefix", "%s;", <<part(contact.display_name_prefix)>>),
       Tok("suffix", "%s\n", <<part(contact.suffix)>>) >>
    \o line("NICKNAME:%s\n", contact.nickname)
    \o line("EMAIL:%s\n", contact.address1)
    \o line("EMAIL:%s\n", contact.address2)
    \o line("EMAIL:%s\n", contact.address3)
    \o (IF contact.birthday # 0
        THEN << Tok("BDAY", "BDAY:%s\n", <<Digits(contact.birthday)>>) >> ELSE <<>>)
    \o vcard_address("ADR;TYPE=home:%s;", "LABEL;TYPE=home:%s\n",
                      contact.home_po_box, contact.home_street, contact.home_city,
                     contact.home_state, contact.home_postal_code, contact.home_country,
                     contact.home_address)
    \o vcard_address("ADR;TYPE=work:%s;", "LABEL;TYPE=work:%s\n",
                      contact.business_po_box, contact.business_street,
                     contact.business_city, contact.business_state,
                     contact.business_postal_code, contact.business_country,
                     contact.business_address)
    \o vcard_address("ADR;TYPE=postal:%s;", "LABEL;TYPE=postal:%s\n",
                      contact.other_po_box, contact.other_street,
                     contact.other_city, contact.other_state, contact.other_postal_code,
                     contact.other_country, contact.other_address)
    \o line("TEL;TYPE=work,fax:%s\n", contact.business_fax)
    \o line("TEL;TYPE=work,voice:%s\n", contact.business_phone)
    \o line("TEL;TYPE=work,voice:%s\n", contact.business_phone2)
    \o line("TEL;TYPE=car,voice:%s\n", contact.car_phone)
    \o line("TEL;TYPE=home,fax:%s\n", contact.home_fax)
    \o line("TEL;TYPE=home,voice:%s\n", contact.home_phone)
    \o line("TEL;TYPE=home,voice:%s\n", contact.home_phone2)
    \o line("TEL;TYPE=isdn:%s\n", contact.isdn_phone)
    \o line("TEL;TYPE=cell,voice:%s\n", contact.mobile_phone)
    \o line("TEL;TYPE=msg:%s\n", contact.other_phone)
    \o line("TEL;TYPE=pager:%s\n", contact.pager_phone)
    \o line("TEL;TYPE=fax,pref:%s\n", contact.primary_fax)
    \o line("TEL;TYPE=phone,pref:%s\n", contact.primary_phone)
    \o line("TEL;TYPE=pcs:%s\n", contact.radio_phone)
    \o line("TEL;TYPE=bbs:%s\n", contact.telex)
    \o line("TITLE:%s\n", contact.job_title)
    \o line("ROLE:%s\n", contact.profession)
    \o (IF contact.assistant_name # NULL \/ contact.assistant_phone # NULL
        THEN << Tok("AGENT", "AGENT:BEGIN:VCARD\n", <<>>) >>
             \o line("FN:%s\n", contact.assistant_name)
             \o line("TEL:%s\n", contact.assistant_phone)
        ELSE <<>>)
    \o line("ORG:%s\n", contact.company_name)
    \o line("NOTE:%s\n", comment)
    \o (IF ~item.body.null
        THEN << Tok("NOTE:%s\n", "NOTE:%s\n", <<pst_rfc2426_escape(item.body.str)>>) >>
        ELSE <<>>)
    \o write_extra_categories(item.extra_fields)
    \o << Tok("VERSION", "VERSION: 3.0\n", <<>>),
          Tok("END", "END:VCARD\n\n", <<>>) >>

\* the contacts that are written: every choice of the fields that follow
\* the telephone numbers, with a few of the fields before them
Contacts ==
    { [PlainContact EXCEPT !.assistant_name = an, !.assistant_phone = ap,
                           !.company_name = org, !.job_title = t,
                           !.surname = t, !.home_address = adr, !.home_city = adr,
                           !.mobile_phone = ap, !.birthday = IF org = NULL THEN 0 ELSE 7] :
        an \in {NULL, S("Cy D")}, ap \in {NULL, S("555")}, org \in {NULL, S("X;Y")},
        t \in {NULL, S("Dr")}, adr \in {NULL, S("1 Rd\nTown")} }

InitContact ==
    /\ \E c \in Contacts, comment \in {NULL, S("call; later")}, ef \in ExtraFieldLists,
          body \in {NoBody, [NoBody EXCEPT !.null = FALSE, !.str = S("met\nAl")]} :
          arg = [item |-> [BaseItem EXCEPT !.type = "CONTACT", !.extra_fields = ef,
                                           !.body = body],
                 contact |-> c, comment |-> comment]
    /\ out = <<>>
    /\ calls = <<>>
    /\ cur = 0
    /\ extra = [p |-> NULL, owner |-> 0]

\* process, lines 203-207: a contact is written
WriteContact ==
    /\ cur = 0
    /\ out = <<>>
    /\ out' = write_vcard(arg.item, arg.contact, arg.comment)
    /\ UNCHANGED <<calls, cur, extra, arg>>

NextContact == WriteContact

SpecContact == InitContact /\ [][NextContact]_vars

\* the contact of arg has been written
ContactWritten == cur = 0 /\ out # <<>>

\* the text fprintf writes for a format and its arguments, each given as
\* the text its conversion produces
RECURSIVE Printed(_, _)
Printed(f, args) ==
    IF \A p \in 1..Len(f) : f[p] # 37 THEN f
    ELSE LET p == CHOOSE q \in 1..Len(f) : f[q] = 37 /\ \A r \in 1..(q - 1) : f[r] # 37
             e == CHOOSE q \in (p + 1)..Len(f) :
                     /\ f[q] \in {100, 105, 115, 117, 120}
                     /\ \A r \in (p + 1)..(q - 1) : f[r] \notin {100, 105, 115, 117, 120}
         IN  SubSeq(f, 1, p - 1) \o Head(args) \o Printed(SubSeq(f, e + 1, Len(f)), Tail(args))

\* the text of a sequence of entries of out
RECURSIVE Text(_)
Text(toks) ==
    IF toks = <<>> THEN <<>>
    ELSE (IF Head(toks).fmt = "fwrite" THEN Head(toks).a[1]
          ELSE Printed(S(Head(toks).fmt), Head(toks).a))
         \o Text(Tail(toks))

\* the entries of out that come from the call sites ks, in order
Lines(ks) == SelectSeq(out, LAMBDA t : t.k \in ks)

-----------------------------------------------------------------------------
(* The recurrence rule *)

DayCodes == << S("SU"), S("MO"), S("TU"), S("WE"), S("TH"), S("FR"), S("SA") >>

\* the codes of the set bits of a mask among bits 0..5, lowest bit first,
\* each with ';' before it
RECURSIVE DayList(_, _)
DayList(mask, b) ==
    IF b > 5 THEN <<>>
    ELSE (IF (mask \div 2 ^ b) % 2 = 1 THEN <<59>> \o DayCodes[b + 1] ELSE <<>>)
         \o DayList(mask, b + 1)

\* the RRULE line of a recurrence
RRuleLine(r) ==
    S("RRULE:FREQ=")
    \o (CASE r.type = 0 -> S("DAILY") [] r.type = 1 -> S("WEEKLY")
          [] r.type = 2 -> S("MONTHLY") [] r.type = 3 -> S("YEARLY"))
    \o (IF r.count # 0 THEN S(";COUNT=") \o Digits(r.count) ELSE <<>>)
    \o (IF r.interval \notin {0, 1} THEN S(";INTERVAL=") \o Digits(r.interval) ELSE <<>>)
    \o (IF r.dayofmonth # 0 THEN S(";BYMONTHDAY=") \o Digits(r.dayofmonth) ELSE <<>>)
    \o (IF r.monthofyear # 0 THEN S(";BYMONTH=") \o Digits(r.monthofyear) ELSE <<>>)
    \o (IF r.position # 0 THEN S(";BYSETPOS=") \o Digits(r.position) ELSE <<>>)
    \o (IF DayList(r.bydaymask, 0) # <<>>
        THEN S(";BYDAY=") \o Tail(DayList(r.bydaymask, 0)) ELSE <<>>)
    \o <<10>>

RRuleKinds ==
    {"RRULE", "RRULE-COUNT", "RRULE-INTERVAL", "RRULE-BYMONTHDAY", "RRULE-BYMONTH",
     "RRULE-BYSETPOS", "RRULE-BYDAY", "RRULE-nl"}

\* C14: the line written for a recurring appointment is RRULE:FREQ= and the
\* name of the type, then ;COUNT= if the count is not zero, ;INTERVAL= if
\* the interval is neither 0 nor 1, ;BYMONTHDAY=, ;BYMONTH= and ;BYSETPOS=
\* if their value is not zero, then one ;BYDAY= group with the codes of the
\* set bits among bits 0..5 of the weekday mask, lowest first, separated by
\* ';', and no such group when none of these bits is set.
C14_RRuleLine ==
    (EntryWritten /\ arg.item.appointment.is_recurring) =>
        Text(Lines(RRuleKinds)) = RRuleLine(arg.item.appointment.rdata)

\* a weekly recurrence of count 10 and interval 2 on Monday and Wednesday,
\* and one whose mask has Saturday set
C14_Witness ==
    /\ EntryWritten
    /\ arg.item.appointment.is_recurring
    /\ \/ Text(Lines(RRuleKinds)) = S("RRULE:FREQ=WEEKLY;COUNT=10;INTERVAL=2;BYDAY=MO;WE\n")
       \/ /\ arg.item.appointment.rdata.bydaymask = 65
          /\ Text(Lines(RRuleKinds)) = S("RRULE:FREQ=DAILY;BYDAY=SU\n")


-----------------------------------------------------------------------------
(* The status lines *)

\* the formats of the status lines of the entry, in order
StatusLines == [p \in DOMAIN Lines({"STATUS", "TRANSP"}) |-> Lines({"STATUS", "TRANSP"})[p].fmt]

\* C15: a tentative appointment gets exactly STATUS:TENTATIVE, a free one
\* TRANSP:TRANSPARENT immediately followed by STATUS:CONFIRMED, a busy or
\* out-of-office one exactly STATUS:CONFIRMED; there is at most one STATUS
\* line and TRANSP:TRANSPARENT is written only for free.
C15_StatusLines ==
    EntryWritten =>
        LET showas == arg.item.appointment.showas
        IN  /\ showas = "TENTATIVE" => StatusLines = << "STATUS:TENTATIVE\n" >>
            /\ showas = "FREE" =>
                  /\ StatusLines = << "TRANSP:TRANSPARENT\n", "STATUS:CONFIRMED\n" >>
                  /\ \E p \in 1..(Len(out) - 1) :
                        out[p].k = "TRANSP" /\ out[p + 1].k = "STATUS"
            /\ showas \in {"BUSY", "OUT_OF_OFFICE"} => StatusLines = << "STATUS:CONFIRMED\n" >>
            /\ Len(Lines({"STATUS"})) <= 1
            /\ Lines({"TRANSP"}) # <<>> => showas = "FREE"

\* a free appointment has been written with its two lines
C15_Witness ==
    /\ EntryWritten
    /\ arg.item.appointment.showas = "FREE"
    /\ Len(StatusLines) = 2


-----------------------------------------------------------------------------
(* The alarm *)

AlarmKinds == {"VALARM", "TRIGGER", "ACTION", "DESCRIPTION-alarm", "END-VALARM"}

\* the position in out of the only entry of call site k
PosOf(k) == CHOOSE p \in 1..Len(out) : out[p].k = k

\* C16: an alarm block is written if and only if the alarm flag is set and
\* the minutes n satisfy 0 <= n < 1440; the block then holds TRIGGER:-PT<n>M
\* with that n, ACTION:DISPLAY and DESCRIPTION:Reminder, and lies between
\* BEGIN:VEVENT and END:VEVENT.
C16_Alarm ==
    EntryWritten =>
        LET appointment == arg.item.appointment
            n == appointment.alarm_minutes
        IN  IF appointment.alarm /\ 0 <= n /\ n < 1440
            THEN /\ Text(Lines(AlarmKinds)) =
                       S("BEGIN:VALARM\nTRIGGER:-PT") \o Digits(n)
                       \o S("M\nACTION:DISPLAY\nDESCRIPTION:Reminder\nEND:VALARM\n")
                 /\ \A p \in 1..Len(out) :
                       out[p].k \in AlarmKinds =>
                          PosOf("BEGIN-VEVENT") < p /\ p < PosOf("END-VEVENT")
                 /\ PosOf("END-VALARM") = PosOf("VALARM") + 4
            ELSE Lines(AlarmKinds) = <<>>

\* an alarm of 15 minutes has been written, one of 1439 too
C16_Witness ==
    /\ EntryWritten
    /\ arg.item.appointment.alarm
    /\ \/ Text(Lines({"TRIGGER"})) = S("TRIGGER:-PT15M\n")
       \/ Text(Lines({"TRIGGER"})) = S("TRIGGER:-PT1439M\n")


-----------------------------------------------------------------------------
(* The categories *)

\* the text of the CATEGORIES lines of the entry
CategoryText == Text(Lines({"CATEGORIES", "CATEGORIES-nl"}))

\* the category of each label
CategoryOf ==
    [IMPORTANT |-> S("IMPORTANT"), BUSINESS |-> S("BUSINESS"), PERSONAL |-> S("PERSONAL"),
     VACATION |-> S("VACATION"), MUST_ATTEND |-> S("MUST-ATTEND"),
     TRAVEL_REQ |-> S("TRAVEL-REQUIRED"), NEEDS_PREP |-> S("NEEDS-PREPARATION"),
     BIRTHDAY |-> S("BIRTHDAY"), ANNIVERSARY |-> S("ANNIVERSARY"),
     PHONE_CALL |-> S("PHONE-CALL")]

\* the values of the Keywords extra fields of an item, in list order
KeywordValues(item) ==
    LET kw == SelectSeq(item.extra_fields, LAMBDA ef : ef.field_name = "Keywords")
    IN  [i \in DOMAIN kw |-> kw[i].value]

\* texts joined by ", "
RECURSIVE Joined(_)
Joined(vs) ==
    IF vs = <<>> THEN <<>>
    ELSE IF Len(vs) = 1 THEN vs[1]
    ELSE vs[1] \o S(", ") \o Joined(Tail(vs))

\* a single line that begins with CATEGORIES:
OneCategoryLine(t) ==
    /\ Len(t) > 11
    /\ SubSeq(t, 1, 11) = S("CATEGORIES:")
    /\ t[Len(t)] = 10
    /\ \A p \in 1..(Len(t) - 1) : t[p] # 10

\* C17 as stated: every event has exactly one CATEGORIES line; with a
\* label it is the category of the label, without one it is the Keywords
\* values joined by ", ", or CATEGORIES:NONE when there is none.
C17_OneCategoriesLine ==
    EntryWritten =>
        LET item == arg.item
            label == item.appointment.label
        IN  /\ OneCategoryLine(CategoryText)
            /\ label \in DOMAIN CategoryOf =>
                  CategoryText = S("CATEGORIES:") \o CategoryOf[label] \o <<10>>
            /\ label = "NONE" =>
                  CategoryText = S("CATEGORIES:")
                                 \o (IF KeywordValues(item) = <<>> THEN S("NONE")
                                     ELSE Joined(KeywordValues(item)))
                                 \o <<10>>

\* C17, amended: with one of the eleven labels the event has the one line
\* of that label's category, whatever the Keywords; without a label it has
\* one line with the Keywords values, each as pst_rfc2426_escape returns
\* it, joined by ", ", or CATEGORIES:NONE when there is none; with a label
\* code that is none of these the event has no CATEGORIES line.
C17_CategoriesByLabel ==
    EntryWritten =>
        LET item == arg.item
            label == item.appointment.label
            vs == KeywordValues(item)
        IN  IF label \in DOMAIN CategoryOf
            THEN CategoryText = S("CATEGORIES:") \o CategoryOf[label] \o <<10>>
            ELSE IF label = "NONE"
            THEN /\ OneCategoryLine(CategoryText)
                 /\ CategoryText =
                       S("CATEGORIES:")
                       \o (IF vs = <<>> THEN S("NONE")
                           ELSE Joined([i \in DOMAIN vs |-> pst_rfc2426_escape(vs[i])]))
                       \o <<10>>
            ELSE Lines({"CATEGORIES", "CATEGORIES-nl"}) = <<>>

\* an entry without label whose two Keywords values are written, the comma
\* of the first one escaped
C17_Witness ==
    /\ EntryWritten
    /\ arg.item.appointment.label = "NONE"
    /\ CategoryText = S("CATEGORIES:a\\,b, c\n")


-----------------------------------------------------------------------------
(* Allocation failures *)

MaxAllocs == 7      \* allocations of one call that can be the failing one

\* the attachment lists of the items whose allocations are followed
AllocAttachLists ==
    {<<>>} \cup
    { << [NewAttach EXCEPT !.data = TRUE, !.content = S("d"),
                           !.filename1 = f1, !.filename2 = f2] >> :
         f1 \in {NULL, S("A.TXT")}, f2 \in {NULL, S("a.txt"), S("\"q")} }

\* arg.failing is the number, in the order the allocations are made, of the
\* allocation that fails (0: none does); arg.used counts those made so far
InitAlloc ==
    /\ \E r, eb, eh \in BOOLEAN, l \in AllocAttachLists, k \in 0..MaxAllocs :
          arg = [item |-> [BaseItem EXCEPT !.rtf_compressed = r, !.encrypted_body = eb,
                                           !.encrypted_htmlbody = eh, !.attach = l],
                 failing |-> k, used |-> 0, failed |-> FALSE,
                 pc |-> "BodyWritten", attach |-> <<>>, n |-> 0]
    /\ out = <<>>
    /\ calls = <<>>
    /\ cur = 0
    /\ extra = [p |-> NULL, owner |-> 0]

\* die, lines 87-97: what it prints before exit(0)
die(message) ==
    << Tok("die", "\r\n--%s\r\nContent-Disposition: form-data; name=error\r\n\r\n%s\r\n--%s--",
           <<S("mime_boundary"), message, S("mime_boundary")>>) >>

\* lines 1030-1063 when allocations can fail: malloc_or_die for each
\* record, strdup for the name and the type of the rich-text one
PromoteAlloc ==
    /\ arg.pc = "BodyWritten"
    /\ LET item == arg.item
           rtf  == IF item.rtf_compressed THEN 3 ELSE 0
           eb   == IF item.encrypted_body THEN 1 ELSE 0
           eh   == IF item.encrypted_htmlbody THEN 1 ELSE 0
           dies == \/ item.rtf_compressed /\ arg.failing = 1
                   \/ item.encrypted_body /\ arg.failing = rtf + 1
                   \/ item.encrypted_htmlbody /\ arg.failing = rtf + eb + 1
           made == IF dies THEN arg.failing ELSE rtf + eb + eh
       IN  /\ arg' = [arg EXCEPT
                        !.pc = IF dies THEN "Died" ELSE "Attachments",
                        !.used = made,
                        !.failed = arg.failing \in 1..made,
                        !.attach = IF dies THEN <<>>
                                   ELSE promote(item, strdup(Lit.rtf_name, arg.failing # 2),
                                                      strdup(Lit.rtf_mime, arg.failing # 3))]
           /\ out' = IF dies
                     THEN out \o die(S("out of memory because a message was too large"))
                     ELSE out
    /\ UNCHANGED <<calls, cur, extra>>

\* the entries write_inline_attachment has written when it calls quote_string
BeforeQuote(toks) ==
    SelectSeq(toks, LAMBDA t : t.k \in {"att-boundary", "att-Content-Type", "att-CTE",
                                         "att-Content-ID"})

\* lines 1073-1092: one round of the loop for an attachment that is not an
\* embedded message. quote_string (line 472) takes its buffer from malloc
\* and writes to it without a test: after a failure the write goes through
\* a null pointer, which ends the process with a signal or goes unnoticed
AttachAlloc ==
    /\ arg.pc = "Attachments"
    /\ arg.n < Len(arg.attach)
    /\ LET a      == arg.attach[arg.n + 1]
           quotes == (a.data \/ a.i_id # 0) /\ (a.data \/ pst_getID(a))
                     /\ a.filename2 # NULL
           made   == arg.used + (IF quotes THEN 1 ELSE 0)
           fails  == quotes /\ arg.failing = made
           toks   == IF a.data \/ a.i_id # 0
                     THEN write_inline_attachment(a, S("b")) ELSE <<>>
       IN  \/ /\ arg' = [arg EXCEPT !.n = @ + 1, !.used = made,
                                    !.failed = @ \/ fails]
              /\ out' = out \o toks
           \/ /\ fails
              /\ arg' = [arg EXCEPT !.pc = "Signal", !.used = made, !.failed = TRUE]
              /\ out' = out \o BeforeQuote(toks)
    /\ UNCHANGED <<calls, cur, extra>>

\* line 1095
CloseAlloc ==
    /\ arg.pc = "Attachments"
    /\ arg.n = Len(arg.attach)
    /\ arg' = [arg EXCEPT !.pc = "Closed"]
    /\ out' = out \o << Tok("close", "\n--%s--\n\n", <<S("b")>>) >>
    /\ UNCHANGED <<calls, cur, extra>>

NextAlloc ==
    \/ PromoteAlloc
    \/ AttachAlloc
    \/ CloseAlloc

SpecAlloc == InitAlloc /\ [][NextAlloc]_vars

\* C18: when an allocation made while an item is written fails, the run
\* ends through die() with its diagnostic, and nothing is written with the
\* result of the failed allocation.
C18_FailedAllocationDies ==
    arg.failed =>
        /\ arg.pc = "Died"
        /\ out # <<>>
        /\ out[Len(out)].k = "die"


-----------------------------------------------------------------------------
(* The header functions on their own *)

toupper(c) == IF c >= 97 /\ c <= 122 THEN c - 32 ELSE c

\* the blobs valid_headers is given: for each tag the tag itself, in upper
\* and in lower case, folded, folded with a space for the tab, without its
\* last character, after a space, before more text, and with the folding
\* after more text
TagBlobs(tag) ==
    LET front == SubSeq(tag, 1, Len(tag) - 1) IN
    { tag,
      [i \in DOMAIN tag |-> toupper(tag[i])],
      [i \in DOMAIN tag |-> tolower(tag[i])],
      front \o Lit.CRLFTAB,
      front \o S("\r\n "),
      front \o S("\r\n"),
      front,
      <<32>> \o tag,
      tag \o S("x\n"),
      front \o S("x\r\n\t") }

ValidBlobs ==
    {NULL, <<>>, S("abc"), S("\r\n\t")}
    \cup UNION { TagBlobs(HeaderTags[i]) : i \in DOMAIN HeaderTags }

\* the blocks and fields header_get_field is given
SearchBlocks == {NULL} \cup Lists({10, 65, 97, 98}, 5)
SearchFields == { S("\na"), S("\nab"), S("\naa") }

InitHeader ==
    /\ \/ \E h \in ValidBlobs :
             arg = [fn |-> "valid_headers", header |-> h, field |-> NULL,
                    done |-> FALSE, result |-> 0, t |-> 0]
       \/ \E h \in SearchBlocks, f \in SearchFields :
             arg = [fn |-> "header_get_field", header |-> h, field |-> f,
                    done |-> FALSE, result |-> 0, t |-> 0]
    /\ out = <<>>
    /\ calls = <<>>
    /\ cur = 0
    /\ extra = [p |-> NULL, owner |-> 0]

\* valid_headers(arg.header); result is 1 for true
ValidHeaders ==
    /\ arg.fn = "valid_headers"
    /\ ~arg.done
    /\ arg' = [arg EXCEPT !.done = TRUE,
                          !.result = IF valid_headers(arg.header) THEN 1 ELSE 0]
    /\ UNCHANGED <<calls, cur, extra, out>>

\* header_get_field(arg.header, arg.field); t is what its call of
\* my_stristr returns, result what it returns, both as indexes, 0 for NULL
HeaderGetField ==
    /\ arg.fn = "header_get_field"
    /\ ~arg.done
    /\ arg' = [arg EXCEPT !.done = TRUE,
                          !.t = my_stristr(arg.header, arg.field),
                          !.result = header_get_field(arg.header, arg.field)]
    /\ UNCHANGED <<calls, cur, extra, out>>

NextHeader ==
    \/ ValidHeaders
    \/ HeaderGetField

SpecHeader == InitHeader /\ [][NextHeader]_vars

\* two characters that are the same, letter case aside
SameLetter(a, b) ==
    \/ a = b
    \/ a \in 65..90 /\ b = a + 32
    \/ b \in 65..90 /\ a = b + 32

\* text n stands in text h from index i on, letter case aside
StandsAt(h, i, n) ==
    /\ i >= 1
    /\ i + Len(n) - 1 <= Len(h)
    /\ \A k \in 1..Len(n) : SameLetter(h[i + k - 1], n[k])

\* the twelve tags
Tags ==
    { S("Content-Type: "), S("Date: "), S("From: "), S("MIME-Version: "),
      S("Microsoft Mail Internet Headers"), S("Received: "), S("Return-Path: "),
      S("Subject: "), S("To: "), S("X-ASG-Debug-ID: "), S("X-Barracuda-URL: "),
      S("X-x: ") }

\* C19: valid_headers returns true if and only if the blob is not null and
\* begins, letter case aside, with one of the twelve tags, or with one of
\* the tags that end in a space with CR LF TAB in the place of that space.
C19_ValidIffLeadingTag ==
    (arg.fn = "valid_headers" /\ arg.done) =>
        ((arg.result = 1) <=>
            /\ arg.header # NULL
            /\ \E tag \in Tags :
                  \/ StandsAt(arg.header, 1, tag)
                  \/ /\ tag[Len(tag)] = 32
                     /\ StandsAt(arg.header, 1,
                                 SubSeq(tag, 1, Len(tag) - 1) \o <<13, 10, 9>>))

\* a blob that begins with a folded tag has been found valid
C19_Witness ==
    /\ arg.fn = "valid_headers"
    /\ arg.done
    /\ arg.header = S("Subject:\r\n\t")
    /\ arg.result = 1


\* the first index of h where n stands, letter case aside; 0 when none
FirstStanding(h, n) ==
    IF \E i \in 1..Len(h) : StandsAt(h, i, n)
    THEN CHOOSE i \in 1..Len(h) : StandsAt(h, i, n) /\ \A j \in 1..(i - 1) : ~StandsAt(h, j, n)
    ELSE 0

\* C20: header_get_field(header, "\n" + name) returns a position whenever
\* the block holds newline + name somewhere, letter case aside, or begins
\* with name, and none otherwise; my_stristr returns the first occurrence
\* of the needle, letter case aside, whenever there is one.
C20_FindsEveryOccurrence ==
    (arg.fn = "header_get_field" /\ arg.done /\ arg.header # NULL) =>
        /\ arg.t = FirstStanding(arg.header, arg.field)
        /\ (arg.result # 0) <=>
              \/ FirstStanding(arg.header, arg.field) # 0
              \/ StandsAt(arg.header, 1, Tail(arg.field))


-----------------------------------------------------------------------------
(* Functions run on their own *)

\* the lines the blocks given to header_strip_field are made of
StripLines == { S("F: x"), S("f: y"), S("A: 1"), S(" c"), S("\tc"), S("F:") }

MaxStripLines == 4      \* lines of a block given to header_strip_field

\* the lines of a list joined, a newline after each but the last
RECURSIVE JoinLines(_)
JoinLines(ls) ==
    IF ls = <<>> THEN <<>>
    ELSE IF Len(ls) = 1 THEN ls[1]
    ELSE ls[1] \o <<10>> \o JoinLines(Tail(ls))

\* the blocks: up to MaxStripLines lines, the last with or without its newline
StripBlocks ==
    { JoinLines(ls) \o nl : ls \in Lists(StripLines, MaxStripLines) \ {<<>>},
                            nl \in {<<>>, <<10>>} }

\* the blocks header_get_subfield is given: a field C, after a field A or
\* first in the block, with or without a continuation line, a field after
\* it and a final newline
SubfieldBlocks ==
    { before \o first \o cont \o next \o nl :
        before \in {<<>>, S("A: 1\n")},
        first \in {S("C: t; k=v"), S("C: t; k=\"q;r\""), S("C: t; K=v; m=1"), S("C: t"),
                   S("C: t; k=\"q")},
        cont \in {<<>>, S("\n m=1"), S("\n\tk=w"), S("\n k=w")},
        next \in {<<>>, S("\nX: a;b"), S("\nX: k=z")},
        nl \in {<<>>, <<10>>} }

\* the header blocks the sender is derived from: up to three lines, the
\* last with or without its newline
SenderLines ==
    { S("From: Al <al@x>"), S("from: <d@x>"), S("To: t"), S("F"), S("From: a>b <c@x>"),
      S("From: Al <al"), S(" x>") }

SenderBlocks ==
    {NULL} \cup { JoinLines(ls) \o nl : ls \in Lists(SenderLines, 3) \ {<<>>},
                                       nl \in {<<>>, <<10>>} }

\* the contexts find_rfc822_headers is given: up to three groups, a blank
\* line after each but the last
ContextGroups ==
    { S("Content-Type: message/rfc822\n"), S("content-type: MESSAGE/RFC822; x=1\n"),
      S("Content-Type: message\n"), S("Content-Type: \n"),
      S("Content-Type: text/plain\n"), S("Content-Type: message/rfc822x\n"),
      S("From: a\n") }

Contexts ==
    { g1 \o r : g1 \in ContextGroups,
                r \in {<<>>} \cup { <<10>> \o g2 \o q : g2 \in ContextGroups,
                                       q \in {<<>>} \cup { <<10>> \o g3 : g3 \in ContextGroups } } }

\* the strings quote_string is given
QuoteInputs == Lists({34, 92, 97}, 4)

MaxBodyLines == 3   \* lines of a body given to write_email_body

\* the lines of the bodies write_email_body is given
BodyLines ==
    { <<>>, S("x"), S(">"), S("From a"), S(">From a"), S(">>From "), S("From"),
      S("Fromage"), S(" From x") }

\* the bodies: up to MaxBodyLines lines, the last with or without its newline
EmailBodies ==
    { JoinLines(ls) \o nl : ls \in Lists(BodyLines, MaxBodyLines), nl \in {<<>>, <<10>>} }

\* arg.fn names the function that is run, arg.done tells that it has
\* returned, arg.text is the text it leaves or writes
InitFunctions ==
    /\ \/ \E h \in StripBlocks :
             arg = [fn |-> "header_strip_field", header |-> h, field |-> S("\nF: "),
                    done |-> FALSE, text |-> <<>>]
       \/ \E h \in SenderBlocks, a \in {NULL, S("a@b"), S("bob")} :
             arg = [fn |-> "sender", header |-> h,
                    item |-> [BaseItem EXCEPT !.header = h, !.sender_address = a],
                    done |-> FALSE, text |-> <<>>]
       \/ \E h \in Contexts :
             arg = [fn |-> "find_rfc822_headers", header |-> h, done |-> FALSE,
                    text |-> <<>>]
       \/ \E s \in QuoteInputs :
             arg = [fn |-> "quote_string", inp |-> s, done |-> FALSE, text |-> <<>>,
                    size |-> 0, written |-> 0, ended |-> FALSE]
       \/ \E b \in EmailBodies :
             arg = [fn |-> "write_email_body", inp |-> b, body |-> b, n |-> TRUE,
                    rounds |-> 0, done |-> FALSE, text |-> <<>>]
       \/ \E h \in SubfieldBlocks :
             arg = [fn |-> "header_get_subfield", header |-> h,
                    field |-> header_get_field(h, S("\nC: ")), subfield |-> S("k"),
                    done |-> FALSE, text |-> S("old")]
    /\ out = <<>>
    /\ calls = <<>>
    /\ cur = 0
    /\ extra = [p |-> NULL, owner |-> 0]

\* header_strip_field(arg.header, arg.field); text is the block it leaves
HeaderStripField ==
    /\ arg.fn = "header_strip_field"
    /\ ~arg.done
    /\ arg' = [arg EXCEPT !.done = TRUE,
                          !.text = header_strip_field(arg.header, arg.field)]
    /\ UNCHANGED <<calls, cur, extra, out>>

\* header_get_subfield(arg.field, arg.subfield, text, 30), arg.field being
\* a position in arg.header, as header_get_field returns it
HeaderGetSubfield ==
    /\ arg.fn = "header_get_subfield"
    /\ ~arg.done
    /\ arg' = [arg EXCEPT !.done = TRUE,
                          !.text = header_get_subfield(arg.header, arg.field, arg.subfield,
                                                       arg.text, 30)]
    /\ UNCHANGED <<calls, cur, extra, out>>

\* lines 804-887 of write_normal_email for the call made by process, when
\* no context is carried yet: text is the sender it derives
DeriveSender ==
    /\ arg.fn = "sender"
    /\ ~arg.done
    /\ LET h1   == removeCR(arg.item.header)
           temp == strstr(h1, 1, Lit.NLNL)
           h2   == IF temp # 0 THEN SubSeq(h1, 1, temp) ELSE h1
       IN  arg' = [arg EXCEPT !.done = TRUE,
                              !.text = IF valid_headers(arg.item.header)
                                       THEN derive_sender(arg.item, h2)
                                       ELSE default_sender(arg.item)]
    /\ UNCHANGED <<calls, cur, extra, out>>

\* find_rfc822_headers(&p), p pointing to arg.header: text is what p
\* points to afterwards
FindRfc822Headers ==
    /\ arg.fn = "find_rfc822_headers"
    /\ ~arg.done
    /\ arg' = [arg EXCEPT !.done = TRUE, !.text = find_rfc822_headers(arg.header)]
    /\ UNCHANGED <<calls, cur, extra, out>>

\* quote_string(arg.inp): size is the size of the buffer it allocates,
\* written the number of bytes it writes from the start of the buffer, the
\* terminator among them, text the string it returns. A write past the end
\* of the buffer corrupts the heap: the process can be ended for it
\* (ended), or go on
QuoteString ==
    /\ arg.fn = "quote_string"
    /\ ~arg.done
    /\ \E ended \in BOOLEAN :
          /\ ended => Len(quote_string(arg.inp)) + 1 > quote_string_size(arg.inp)
          /\ arg' = [arg EXCEPT !.done = TRUE,
                                !.size = quote_string_size(arg.inp),
                                !.written = Len(quote_string(arg.inp)) + 1,
                                !.text = quote_string(arg.inp),
                                !.ended = ended]
    /\ UNCHANGED <<calls, cur, extra, out>>

\* write_email_body, lines 300-311: one round of its loop. arg.body is the
\* text body points to, arg.n tells that n is not null, arg.rounds counts
\* the rounds, arg.text is what has been written
WriteEmailBodyRound ==
    /\ arg.fn = "write_email_body"
    /\ ~arg.done
    /\ arg.n
    /\ LET q  == IF starts_From(arg.body, skip_gt(arg.body, 1)) THEN <<62>> ELSE <<>>
           nl == strchr(arg.body, 1, 10)
       IN  IF nl # 0
           THEN arg' = [arg EXCEPT !.text = @ \o q \o SubSeq(arg.body, 1, nl),
                                   !.body = From(arg.body, nl + 1),
                                   !.rounds = @ + 1]
           ELSE arg' = [arg EXCEPT !.text = @ \o q, !.n = FALSE, !.rounds = @ + 1]
    /\ UNCHANGED <<calls, cur, extra, out>>

\* write_email_body, line 312: the rest of the body is written after the loop
WriteEmailBodyRest ==
    /\ arg.fn = "write_email_body"
    /\ ~arg.done
    /\ ~arg.n
    /\ arg' = [arg EXCEPT !.text = @ \o arg.body, !.done = TRUE]
    /\ UNCHANGED <<calls, cur, extra, out>>

NextFunctions ==
    \/ DeriveSender
    \/ WriteEmailBodyRound
    \/ WriteEmailBodyRest
    \/ QuoteString
    \/ FindRfc822Headers
    \/ HeaderStripField
    \/ HeaderGetSubfield

SpecFunctions == InitFunctions /\ [][NextFunctions]_vars

\* the lines of a text: what stands before each of its newlines, and what
\* stands after the last one when that is not empty
SplitLines(t) ==
    LET nls == {0} \cup { p \in 1..Len(t) : t[p] = 10 }
               \cup (IF t # <<>> /\ t[Len(t)] # 10 THEN {Len(t) + 1} ELSE {})
        nth(k) == CHOOSE p \in nls : Cardinality({ q \in nls : q < p }) = k
    IN  [k \in 1..(Cardinality(nls) - 1) |-> SubSeq(t, nth(k - 1) + 1, nth(k) - 1)]

IsContinuation(l) == l # <<>> /\ l[1] \in {32, 9}

\* line k of ls belongs to a field of the given name: it begins with the
\* name, or it is a continuation line of a line that does
BelongsTo(ls, k, name) ==
    \E j \in 1..k :
        /\ StandsAt(ls[j], 1, name)
        /\ \A m \in (j + 1)..k : IsContinuation(ls[m])

\* the lines of ls that belong to no field of the given name
OtherLines(ls, name) ==
    LET keep == { k \in DOMAIN ls : ~BelongsTo(ls, k, name) }
        nth(i) == CHOOSE k \in keep : Cardinality({ q \in keep : q < k }) = i - 1
    IN  [i \in 1..Cardinality(keep) |-> ls[nth(i)]]

\* C21: header_strip_field leaves the block without the lines that begin
\* with the field name and without their continuation lines; every other
\* line is kept, unchanged and in order, and a block without the field is
\* left as it is.
C21_StripsEveryOccurrence ==
    (arg.fn = "header_strip_field" /\ arg.done) =>
        LET name == Tail(arg.field)
            ls   == SplitLines(arg.header)
        IN  /\ SplitLines(arg.text) = OtherLines(ls, name)
            /\ (\A k \in DOMAIN ls : ~StandsAt(ls[k], 1, name)) => arg.text = arg.header


\* the first index of t, from p on, that holds a character of cs; the
\* index after the end of t when none does
NextOf(t, p, cs) ==
    IF \E i \in p..Len(t) : t[i] \in cs
    THEN CHOOSE i \in p..Len(t) : t[i] \in cs /\ \A j \in p..(i - 1) : t[j] \notin cs
    ELSE Len(t) + 1

\* the span of the field at position f of a block: its first line and its
\* continuation lines, without the newline that ends the last of them
SpanOf(h, f) ==
    LET start == IF h[f] = 10 THEN f + 1 ELSE f
        ends  == { p \in start..Len(h) : h[p] = 10 /\ Ch(h, p + 1) \notin {32, 9} }
        end   == IF ends = {} THEN Len(h) + 1
                 ELSE CHOOSE p \in ends : \A q \in ends : p <= q
    IN  SubSeq(h, start, end - 1)

\* the value of key in a span that holds space + key + "=" at index i
ValueAt(span, i, key) ==
    LET v == i + Len(key) + 2 IN
    IF Ch(span, v) = 34
    THEN SubSeq(span, v + 1, NextOf(span, v + 1, {34}) - 1)
    ELSE SubSeq(span, v, NextOf(span, v, {59, 10}) - 1)

\* C22: header_get_subfield leaves in the buffer the value of the key when
\* space + key + "=" stands in the span of the field, the field being the
\* last of the block or not: the text up to the next double quote for a
\* value that begins with one, the text up to the first ';' or newline
\* otherwise, cut at the end of the span; the buffer is left as it was
\* when the text does not stand in the span.
C22_SubfieldValue ==
    (arg.fn = "header_get_subfield" /\ arg.done /\ arg.field # 0) =>
        LET span   == SpanOf(arg.header, arg.field)
            search == <<32>> \o arg.subfield \o <<61>>
            i      == FirstStanding(span, search)
        IN  arg.text = IF i = 0 THEN S("old") ELSE ValueAt(span, i, arg.subfield)


\* the header block write_normal_email reads: the blob when it is valid,
\* without its carriage returns and cut after the newline that ends the
\* line before its first blank line; the empty text otherwise
BlockRead(blob) ==
    IF ~valid_headers(blob) THEN <<>>
    ELSE LET h == SelectSeq(blob, LAMBDA c : c # 13)
             blanks == { p \in 1..(Len(h) - 1) : h[p] = 10 /\ h[p + 1] = 10 }
         IN  IF blanks = {} THEN h
             ELSE SubSeq(h, 1, CHOOSE p \in blanks : \A q \in blanks : p <= q)

\* the text between the first '<' of a line and the first '>' after it;
\* NULL when the line has no such pair
Bracketed(l) ==
    LET lt == NextOf(l, 1, {60})
        gt == NextOf(l, lt + 1, {62})
    IN  IF gt <= Len(l) THEN SubSeq(l, lt + 1, gt - 1) ELSE NULL

\* C23: the sender is the sender address of the item when that holds '@';
\* otherwise, when the header block has a From field whose first line
\* holds a '<' and a later '>', the text between them; MAILER-DAEMON
\* otherwise.
C23_Sender ==
    (arg.fn = "sender" /\ arg.done) =>
        LET a     == arg.item.sender_address
            ls    == SplitLines(BlockRead(arg.header))
            froms == { k \in DOMAIN ls : /\ StandsAt(ls[k], 1, S("From:"))
                                        /\ Bracketed(ls[k]) # NULL }
        IN  IF a # NULL /\ \E p \in DOMAIN a : a[p] = 64 THEN arg.text = a
            ELSE IF froms # {} THEN \E k \in froms : arg.text = Bracketed(ls[k])
            ELSE arg.text = S("MAILER-DAEMON")


\* the indexes of a context at which a blank line ends a group: a newline
\* followed by a newline
GroupEnds(h) == { p \in 1..(Len(h) - 1) : h[p] = 10 /\ h[p + 1] = 10 }

\* the group of a context that ends at index p
GroupAt(h, p) ==
    LET before == { q \in GroupEnds(h) : q < p }
        start  == IF before = {} THEN 1
                  ELSE (CHOOSE q \in before : \A r \in before : r <= q) + 2
    IN  SubSeq(h, start, p - 1)

\* a group has a Content-Type line whose value, up to ';' or the end of the
\* line, is message/rfc822, letter case aside
IsRfc822Group(g) ==
    \E k \in DOMAIN SplitLines(g) :
        LET l == SplitLines(g)[k]
            v == SubSeq(l, 15, NextOf(l, 15, {59}) - 1)
        IN  /\ StandsAt(l, 1, S("Content-Type: "))
            /\ Len(v) = 14
            /\ StandsAt(v, 1, S("message/rfc822"))

\* C24: find_rfc822_headers moves the context to the group that follows
\* the first group whose Content-Type value is message/rfc822; a group with
\* another value, an empty one or a prefix of message/rfc822 among them, is
\* no match, so without a matching group the context ends at the last group.
C24_FirstRfc822Group ==
    (arg.fn = "find_rfc822_headers" /\ arg.done) =>
        LET h       == arg.header
            matches == { p \in GroupEnds(h) : IsRfc822Group(GroupAt(h, p)) }
            ends    == IF matches # {} THEN matches ELSE GroupEnds(h)
            p       == IF matches # {}
                       THEN CHOOSE q \in matches : \A r \in matches : q <= r
                       ELSE CHOOSE q \in ends : \A r \in ends : r <= q
        IN  arg.text = IF ends = {} THEN h ELSE SubSeq(h, p + 2, Len(h))


-----------------------------------------------------------------------------
(* The carried header context *)

\* C25: while a top-level item is written the carried context is set only
\* by the call made by process (embedding = 0), from the text after the
\* first blank line of the header block of its item; the call for an
\* embedded message never sets it, and it is null when the item is begun.
C25_OnlyOutermostInitialises ==
    /\ (calls = <<>> \/ (Len(calls) = 1 /\ calls[1].pc = "Start")) => extra.p = NULL
    /\ extra.owner # 0 => calls[extra.owner].embedding = 0


\* C26: two embedded messages attached to the same message are never both
\* written with the same header group of the carried context: once a
\* group has served as the header block of one, a later one gets another
\* group or none.
C26_GroupUsedOnce ==
    \A i, j \in DOMAIN calls :
        (/\ i < j
         /\ calls[i].caller # 0
         /\ calls[i].caller = calls[j].caller
         /\ calls[i].src = "extra" /\ calls[j].src = "extra"
         /\ calls[i].pc # "Start" /\ calls[j].pc # "Start")
        => calls[i].headers # calls[j].headers


-----------------------------------------------------------------------------
(* The header section *)

\* a text holds an empty line: it begins with a newline or holds two in a row
HasEmptyLine(t) ==
    \/ t # <<>> /\ t[1] = 10
    \/ \E p \in 1..(Len(t) - 1) : t[p] = 10 /\ t[p + 1] = 10

\* what call 1 has written up to the line that ends its header section
HeaderSection ==
    LET ends == { p \in DOMAIN out : out[p].inv = 1 /\ out[p].k = "end-of-headers" }
        last == CHOOSE p \in ends : \A q \in ends : p <= q
    IN  Text(SubSeq(out, 1, last))

\* C27: the header text a call has recovered, cut and stripped holds no
\* empty line; written, it is followed by one newline when it does not end
\* in one and by none when it does; and the only empty line of the header
\* section of the document is the one that ends it.
C27_NoEmptyLineInHeaders ==
    /\ \A i \in DOMAIN calls :
          (calls[i].pc # "Start" /\ calls[i].headers # NULL) =>
              ~HasEmptyLine(calls[i].headers)
    /\ \A p \in DOMAIN out :
          out[p].k = "headers" =>
              /\ ~HasEmptyLine(out[p].a[1])
              /\ p < Len(out) =>
                    ((out[p + 1].k = "headers-nl") <=> (out[p].a[1][Len(out[p].a[1])] # 10))
    /\ (\E p \in DOMAIN out : out[p].inv = 1 /\ out[p].k = "end-of-headers") =>
          /\ ~HasEmptyLine(SubSeq(HeaderSection, 1, Len(HeaderSection) - 1))
          /\ SubSeq(HeaderSection, Len(HeaderSection) - 1, Len(HeaderSection)) = <<10, 10>>

\* a header block that loses its Content-Type field and ends without a
\* newline has been written, and the header section after it
C27_Witness ==
    /\ calls # <<>>
    /\ strstr(calls[1].item.header, 1, S("Content-Type")) # 0
    /\ \E p \in 1..(Len(out) - 1) :
          /\ out[p].inv = 1 /\ out[p].k = "headers" /\ out[p + 1].k = "headers-nl"
          /\ strstr(out[p].a[1], 1, S("Content-Type")) = 0
    /\ \E p \in DOMAIN out : out[p].inv = 1 /\ out[p].k = "end-of-headers"


\* a quoted text without the backslashes put before its quotes and
\* backslashes
RECURSIVE Unquoted(_)
Unquoted(t) ==
    IF t = <<>> THEN <<>>
    ELSE IF t[1] = 92 /\ Len(t) > 1 THEN <<t[2]>> \o Unquoted(SubSeq(t, 3, Len(t)))
    ELSE <<t[1]>> \o Unquoted(Tail(t))

\* C28: quote_string writes no more bytes than the buffer it allocated
\* holds, also when the input begins with a double quote or a backslash,
\* and the result without the inserted backslashes is the input.
C28_BufferLargeEnough ==
    (arg.fn = "quote_string" /\ arg.done) =>
        /\ arg.written <= arg.size
        /\ ~arg.ended
        /\ Unquoted(arg.text) = arg.inp


\* the lines of the written vCard text that open a card, the AGENT line
\* that opens the card of the assistant among them, and those that close one
VcardBegins ==
    { i \in DOMAIN SplitLines(Text(out)) :
        SplitLines(Text(out))[i] \in {S("BEGIN:VCARD"), S("AGENT:BEGIN:VCARD")} }
VcardEnds ==
    { i \in DOMAIN SplitLines(Text(out)) : SplitLines(Text(out))[i] = S("END:VCARD") }

\* C29: the text write_vcard writes for a contact holds as many BEGIN:VCARD
\* markers, the one of the AGENT card of the assistant included, as
\* END:VCARD markers.
C29_VcardWellNested ==
    ContactWritten => Cardinality(VcardBegins) = Cardinality(VcardEnds)


\* a line made of zero or more '>' and then "From ", with anything behind
FromLine(l) ==
    \E j \in 0..Len(l) :
        /\ \A i \in 1..j : l[i] = 62
        /\ j + 5 <= Len(l)
        /\ SubSeq(l, j + 1, j + 5) = <<70, 114, 111, 109, 32>>

\* a text is its lines, each with its newline but an unterminated last one:
\* two texts are the same when they have the same lines and end alike
Newlines(t) == { p \in 1..Len(t) : t[p] = 10 }

\* C30: write_email_body comes to its end after no more rounds than the
\* body has lines, and what it has written then is the body line by line,
\* each line of zero or more '>' and "From " with one more '>' before it and
\* every other line as it is, the first line and an unterminated last line
\* included; one '>' taken from each such line of the output gives the body.
C30_BodyLineByLine ==
    (arg.fn = "write_email_body") =>
        /\ arg.rounds <= Cardinality(Newlines(arg.inp)) + 1
        /\ arg.done \/ ENABLED WriteEmailBodyRound \/ ENABLED WriteEmailBodyRest
        /\ arg.done =>
             LET inl  == SplitLines(arg.inp)
                 outl == SplitLines(arg.text)
             IN  /\ arg.text = write_email_body(arg.inp)
                 /\ Len(outl) = Len(inl)
                 /\ Cardinality(Newlines(arg.text)) = Cardinality(Newlines(arg.inp))
                 /\ \A k \in 1..Len(inl) :
                       /\ FromLine(inl[k]) => outl[k] = <<62>> \o inl[k]
                       /\ ~FromLine(inl[k]) => outl[k] = inl[k]
                       /\ (FromLine(outl[k]) /\ outl[k][1] = 62) => Tail(outl[k]) = inl[k]
                       /\ ~(FromLine(outl[k]) /\ outl[k][1] = 62) => outl[k] = inl[k]

\* write_email_body has written a body whose first line and whose
\* unterminated last line are such lines, with a line between that is not
C30_Witness ==
    /\ arg.fn = "write_email_body"
    /\ arg.done
    /\ Len(SplitLines(arg.inp)) = 3
    /\ arg.inp[Len(arg.inp)] # 10
    /\ FromLine(SplitLines(arg.inp)[1])
    /\ ~FromLine(SplitLines(arg.inp)[2])
    /\ FromLine(SplitLines(arg.inp)[3])
    /\ arg.rounds = 3
====
